---- MODULE Spec2Model ----
(***************************************************************************)
(* Tracker-module header parser (scripts/utils/tracker_parser.py).         *)
(*                                                                         *)
(* Encoding of Python values:                                              *)
(*   bytes / str      sequence of byte values / code points (integers)     *)
(*   dict             record (function from key to value)                  *)
(*   None (a result)  the record None                                      *)
(*   None (a field)   PyNone, a sequence no decoded string is equal to     *)
(*   raised exception the record Raise(kind)                               *)
(* A file on disk is its length plus its bytes: `at` gives the bytes that  *)
(* were written explicitly, every other offset below `len` holds `fill`.   *)
(* environ is the process environment (os.environ), which the parser       *)
(* never reads.  handles is the set of open file objects and frame the     *)
(* activation of the function the dispatcher is calling, for the runs that *)
(* follow a call statement by statement.  s3 is the bucket (key to        *)
(* object) and upload_cache the module global _upload_cache of             *)
(* scripts/utils/upload_utils.py.                                          *)
(***************************************************************************)
EXTENDS Integers, Sequences, FiniteSets, TLC

VARIABLES fs, pc, tracker_path, ext, detected_format, metadata, ret, first, environ,
          handles, frame, s3, upload_cache

vars == <<fs, pc, tracker_path, ext, detected_format, metadata, ret, first, environ, handles, frame, s3, upload_cache>>

----------------------------------------------------------------------------
(* Characters and literals *)

\* the ASCII characters 32..95 and 97..122, in code order
Printable ==
   << " ", "!", "\"", "#", "$", "%", "&", "'", "(", ")", "*", "+", ",", "-", ".", "/",
      "0", "1", "2", "3", "4", "5", "6", "7", "8", "9", ":", ";", "<", "=", ">", "?",
      "@", "A", "B", "C", "D", "E", "F", "G", "H", "I", "J", "K", "L", "M", "N", "O",
      "P", "Q", "R", "S", "T", "U", "V", "W", "X", "Y", "Z", "[", "\\", "]", "^", "_" >>
Lowercase ==
   << "a", "b", "c", "d", "e", "f", "g", "h", "i", "j", "k", "l", "m",
      "n", "o", "p", "q", "r", "s", "t", "u", "v", "w", "x", "y", "z" >>

\* ord(c) of an ASCII character
Ord(c) ==
    IF \E i \in 1..Len(Lowercase) : Lowercase[i] = c
    THEN 96 + CHOOSE i \in 1..Len(Lowercase) : Lowercase[i] = c
    ELSE 31 + CHOOSE i \in 1..Len(Printable) : Printable[i] = c

\* a bytes or str literal, written character by character
L(cs) == [i \in 1..Len(cs) |-> Ord(cs[i])]

Min(a, b) == IF a < b THEN a ELSE b
Max(a, b) == IF a > b THEN a ELSE b

----------------------------------------------------------------------------
(* Python built-ins used by the parser *)

None == [none |-> TRUE]
PyNone == <<-1>>
Raise(kind) == [raise |-> kind]

IsRaise(v) == "raise" \in DOMAIN v
\* truthiness of a decoder result: a non-empty dict
IsRecord(v) == "format" \in DOMAIN v

\* s[a:b] with 0 <= a <= b
PySlice(s, a, b) == SubSeq(s, a + 1, Min(b, Len(s)))

\* s.startswith(prefix)
startswith(s, prefix) ==
    /\ Len(s) >= Len(prefix)
    /\ \A i \in 1..Len(prefix) : s[i] = prefix[i]

\* s.endswith(suffix)
endswith(s, suffix) ==
    /\ Len(s) >= Len(suffix)
    /\ \A i \in 1..Len(suffix) : s[Len(s) - Len(suffix) + i] = suffix[i]

\* sub in s
Contains(s, sub) ==
    \E i \in 0..(Len(s) - Len(sub)) : \A j \in 1..Len(sub) : s[i + j] = sub[j]

\* s.split(b"\x00")[0]
split0(s) ==
    IF \E i \in 1..Len(s) : s[i] = 0
    THEN SubSeq(s, 1, (CHOOSE i \in 1..Len(s) : s[i] = 0 /\ \A j \in 1..(i - 1) : s[j] # 0) - 1)
    ELSE s

\* s.decode("ascii", errors="ignore"): bytes outside ASCII are dropped
decode_ignore(s) == SelectSeq(s, LAMBDA b : b < 128)

\* str.isspace() on one ASCII code point
IsSpace(c) == c \in {9, 10, 11, 12, 13, 28, 29, 30, 31, 32}

\* s.strip()
strip(s) ==
    IF \A i \in 1..Len(s) : IsSpace(s[i]) THEN <<>>
    ELSE LET lo == CHOOSE i \in 1..Len(s) : ~IsSpace(s[i]) /\ \A j \in 1..(i - 1) : IsSpace(s[j])
             hi == CHOOSE i \in 1..Len(s) : ~IsSpace(s[i]) /\ \A j \in (i + 1)..Len(s) : IsSpace(s[j])
         IN  SubSeq(s, lo, hi)

\* s.lower() / s.upper() on ASCII text
lower(s) == [i \in 1..Len(s) |-> IF s[i] \in 65..90 THEN s[i] + 32 ELSE s[i]]
upper(s) == [i \in 1..Len(s) |-> IF s[i] \in 97..122 THEN s[i] - 32 ELSE s[i]]

\* s.lstrip(".")
RECURSIVE lstrip_dot(_)
lstrip_dot(s) == IF Len(s) > 0 /\ s[1] = 46 THEN lstrip_dot(Tail(s)) ELSE s

\* struct.unpack("<H", s)[0]; struct.error unless len(s) == 2
CanUnpack(s) == Len(s) = 2
\* (unpack_H reading the word big-endian, as ">H" does)
unpack_H_big_endian(s) == 256 * s[1] + s[2]
unpack_H(s) == s[1] + 256 * s[2]

\* the digits of format(n, "d") and format(n, "x")
RECURSIVE Dec(_)
Dec(n) == IF n < 10 THEN <<48 + n>> ELSE Dec(n \div 10) \o <<48 + (n % 10)>>
HexDigit(d) == IF d < 10 THEN 48 + d ELSE 87 + d
RECURSIVE Hex(_)
Hex(n) == IF n < 16 THEN <<HexDigit(n)>> ELSE Hex(n \div 16) \o <<HexDigit(n % 16)>>
\* width 2, zero fill: the "02" of {:02d} and {:02x}
ZFill2(s) == IF Len(s) < 2 THEN <<48>> \o s ELSE s

\* (OrNone keeping the empty string)
OrEmpty(s) == s

\* value if value else None
OrNone(s) == IF s # <<>> THEN s ELSE PyNone

\* PurePath.suffix (pathlib) of a file name
suffix(name) ==
    LET dots == {i \in 1..Len(name) : name[i] = 46}
    IN  IF dots = {} THEN <<>>
        ELSE LET i == CHOOSE d \in dots : \A e \in dots : e <= d
             IN  IF 1 < i /\ i < Len(name) THEN SubSeq(name, i, Len(name)) ELSE <<>>

----------------------------------------------------------------------------
(* Files *)

\* byte at 0-based offset i of a regular file
ByteAt(file, i) == IF i \in DOMAIN file.at THEN file.at[i] ELSE file.fill

\* path.open("rb") succeeds only on an existing, readable regular file
CanOpen(file) == file.kind = "file"

\* f.seek(pos); f.read(n)
Read(file, pos, n) ==
    [i \in 1..Max(0, Min(n, file.len - pos)) |-> ByteAt(file, pos + i - 1)]

\* opening a file in mode "rb" leaves the file as it is
OpenRB(file) == file

\* try: ... except Exception: return None
Reraise(v) == v
Except(v) == IF IsRaise(v) THEN None ELSE v

----------------------------------------------------------------------------
(* Literals of tracker_parser.py *)

fmt_xm == L(<<"x", "m">>)
fmt_it == L(<<"i", "t">>)
fmt_mod == L(<<"m", "o", "d">>)
fmt_s3m == L(<<"s", "3", "m">>)
fmt_mptm == L(<<"m", "p", "t", "m">>)
fmt_ftm == L(<<"f", "t", "m">>)
fmt_nsf == L(<<"n", "s", "f">>)

SIG_XM == L(<<"E", "x", "t", "e", "n", "d", "e", "d", " ", "M", "o", "d", "u", "l", "e", ":", " ">>)
SIG_IMPM == L(<<"I", "M", "P", "M">>)
SIG_MPTM == L(<<"m", "p", "t", "m">>)
SIG_SCRM == L(<<"S", "C", "R", "M">>)
SIG_NESM == L(<<"N", "E", "S", "M">>) \o <<26>>
SIG_NSFE == L(<<"N", "S", "F", "E">>)
FAMITRACKER == L(<<"F", "a", "m", "i", "T", "r", "a", "c", "k", "e", "r">>)
FTM == L(<<"F", "T", "M">>)
FAMITRACKER_MODULE == L(<<"F", "a", "m", "i", "T", "r", "a", "c", "k", "e", "r", " ", "M", "o", "d", "u", "l", "e">>)
STR_UNKNOWN == L(<<"u", "n", "k", "n", "o", "w", "n">>)

----------------------------------------------------------------------------
(* parse_xm_header *)

xm_try(file) ==
    IF ~CanOpen(file) THEN Raise("OSError")
    ELSE
    LET header == Read(file, 0, 80)
        module_name == strip(decode_ignore(split0(PySlice(header, 17, 37))))
        version_bytes == Read(file, 38, 2)
        pattern_data == Read(file, 60, 8)
        num_instruments_bytes == Read(file, 68, 2)
        flags_bytes == Read(file, 70, 2)
        tempo_bytes == Read(file, 72, 2)
        bpm_bytes == Read(file, 74, 2)
    IN  IF ~startswith(header, SIG_XM) THEN None
        ELSE IF \E s \in {version_bytes, PySlice(pattern_data, 0, 2),
                          PySlice(pattern_data, 4, 6), PySlice(pattern_data, 6, 8),
                          num_instruments_bytes, flags_bytes, tempo_bytes, bpm_bytes} :
                   ~CanUnpack(s)
        THEN Raise("struct.error")
        ELSE
        LET version == unpack_H(version_bytes)
            version_str == Dec(version \div 256) \o <<46>> \o ZFill2(Dec(version % 256))
            song_length == unpack_H(PySlice(pattern_data, 0, 2))
            num_channels == unpack_H(PySlice(pattern_data, 4, 6))
            num_patterns == unpack_H(PySlice(pattern_data, 6, 8))
            flags == unpack_H(flags_bytes)
            tracker_tool ==
                IF Contains(lower(module_name), L(<<"o", "p", "e", "n", "m", "p", "t">>)) THEN "OpenMPT"
                ELSE IF Contains(lower(module_name), L(<<"m", "i", "l", "k", "y", "t", "r", "a", "c", "k", "e", "r">>)) THEN "MilkyTracker"
                ELSE IF Contains(lower(module_name), L(<<"m", "o", "d", "p", "l", "u", "g">>)) THEN "ModPlug Tracker"
                ELSE "FastTracker II"
        IN  [format |-> fmt_xm,
             format_long |-> "Extended Module",
             source_format_version |-> version_str,
             tracker_tools |-> <<tracker_tool>>,
             module_name |-> OrNone(module_name),
             channels |-> num_channels,
             patterns |-> num_patterns,
             instruments |-> unpack_H(num_instruments_bytes),
             song_length |-> song_length,
             default_tempo |-> unpack_H(tempo_bytes),
             default_bpm |-> unpack_H(bpm_bytes),
             linear_frequency |-> (flags % 2 = 1)]

parse_xm_header(file) == Except(xm_try(file))

----------------------------------------------------------------------------
(* parse_it_header *)

it_try(file) ==
    IF ~CanOpen(file) THEN Raise("OSError")
    ELSE
    LET header == Read(file, 0, 192)
        song_name == strip(decode_ignore(split0(PySlice(header, 4, 30))))
    IN  IF ~startswith(header, SIG_IMPM) THEN None
        ELSE IF \E a \in {32, 34, 36, 38, 40} : ~CanUnpack(PySlice(header, a, a + 2))
        THEN Raise("struct.error")
        ELSE IF Len(header) <= 51 THEN Raise("IndexError")
        ELSE
        LET version == unpack_H(PySlice(header, 40, 42))
            version_str == Dec(version \div 256) \o <<46>> \o ZFill2(Hex(version % 256))
        IN  [format |-> fmt_it,
             format_long |-> "Impulse Tracker",
             source_format_version |-> version_str,
             tracker_tools |-> <<"Impulse Tracker">>,
             song_name |-> OrNone(song_name),
             channels |-> 64,
             patterns |-> unpack_H(PySlice(header, 38, 40)),
             instruments |-> unpack_H(PySlice(header, 34, 36)),
             samples |-> unpack_H(PySlice(header, 36, 38)),
             orders |-> unpack_H(PySlice(header, 32, 34)),
             initial_speed |-> header[50 + 1],
             initial_tempo |-> header[51 + 1],
             global_volume |-> header[48 + 1]]

parse_it_header(file) == Except(it_try(file))

----------------------------------------------------------------------------
(* parse_mod_header *)

\* (SeqMax taking the last entry played instead of the largest)
SeqLast(s) == s[Len(s)]

\* max(...) of a non-empty list of integers
SeqMax(s) == CHOOSE m \in {s[i] : i \in 1..Len(s)} : \A i \in 1..Len(s) : s[i] <= m

\* (mod_channels without the branch for the other "nCHN" tags)
mod_channels_known_tags(format_tag) ==
    IF format_tag = L(<<"6", "C", "H", "N">>) THEN 6
    ELSE IF format_tag = L(<<"8", "C", "H", "N">>) THEN 8
    ELSE 4

\* the channel count that the format tag at offset 1080 stands for
mod_channels(format_tag) ==
    IF format_tag \in {L(<<"M", ".", "K", ".">>), L(<<"M", "!", "K", "!">>), L(<<"F", "L", "T", "4">>)} THEN 4
    ELSE IF format_tag = L(<<"6", "C", "H", "N">>) THEN 6
    ELSE IF format_tag = L(<<"8", "C", "H", "N">>) THEN 8
    ELSE IF endswith(format_tag, L(<<"C", "H", "N">>))
         THEN IF format_tag[1] \in 48..57 THEN format_tag[1] - 48 ELSE 4
    ELSE 4

mod_try(file) ==
    IF ~CanOpen(file) THEN Raise("OSError")
    ELSE
    LET header == Read(file, 0, 1084)
        song_name == strip(decode_ignore(split0(PySlice(header, 0, 20))))
        format_tag == decode_ignore(PySlice(header, 1080, 1084))
    IN  IF Len(header) <= 950 THEN Raise("IndexError")
        ELSE
        LET song_length == header[950 + 1]
            pattern_order == PySlice(header, 952, 1080)
            played == PySlice(pattern_order, 0, song_length)
        IN  IF song_length > 0 /\ played = <<>> THEN Raise("ValueError")
            ELSE
            LET max_pattern == IF song_length > 0 THEN SeqMax(played) ELSE 0
            IN  [format |-> fmt_mod,
                 format_long |-> "ProTracker Module",
                 source_format_version |-> L(<<"1", ".", "0">>),
                 tracker_tools |-> <<"ProTracker">>,
                 song_name |-> OrNone(song_name),
                 channels |-> mod_channels(format_tag),
                 patterns |-> max_pattern + 1,
                 samples |-> 31,
                 song_length |-> song_length,
                 format_tag |-> format_tag]

\* (parse_mod_header refusing a file whose tag at 1080 is not a known MOD tag)
parse_mod_header_tagged(file) ==
    IF CanOpen(file)
          /\ Read(file, 1080, 4) \notin {L(<<"M", ".", "K", ".">>), L(<<"M", "!", "K", ".">>), L(<<"M", "!", "K", "!">>), L(<<"F", "L", "T", "4">>), L(<<"6", "C", "H", "N">>), L(<<"8", "C", "H", "N">>)}
    THEN None
    ELSE Except(mod_try(file))

parse_mod_header(file) == Except(mod_try(file))

----------------------------------------------------------------------------
(* parse_s3m_header *)

\* (count_channels counting every channel that is not disabled)
count_channels_enabled(channel_settings, limit) ==
    Len(SelectSeq(channel_settings, LAMBDA c : c # 255))

\* sum(1 for c in channel_settings if c != 0xFF and c < limit)
count_channels(channel_settings, limit) ==
    Len(SelectSeq(channel_settings, LAMBDA c : c # 255 /\ c < limit))

s3m_try(file) ==
    IF ~CanOpen(file) THEN Raise("OSError")
    ELSE
    LET header == Read(file, 0, 96)
        song_name == strip(decode_ignore(split0(PySlice(header, 0, 28))))
    IN  IF Len(header) <= 28 THEN Raise("IndexError")
        ELSE IF header[28 + 1] # 26 THEN None
        ELSE IF \E a \in {32, 34, 36, 40} : ~CanUnpack(PySlice(header, a, a + 2))
        THEN Raise("struct.error")
        ELSE IF PySlice(header, 44, 48) # SIG_SCRM THEN None
        ELSE IF Len(header) <= 50 THEN Raise("IndexError")
        ELSE
        LET version == unpack_H(PySlice(header, 40, 42))
            version_str == Dec(version \div 4096) \o <<46>> \o ZFill2(Hex(version % 4096))
            channel_settings == PySlice(header, 64, 96)
        IN  [format |-> fmt_s3m,
             format_long |-> "ScreamTracker 3",
             source_format_version |-> version_str,
             tracker_tools |-> <<"ScreamTracker 3">>,
             song_name |-> OrNone(song_name),
             channels |-> count_channels(channel_settings, 32),
             patterns |-> unpack_H(PySlice(header, 36, 38)),
             instruments |-> unpack_H(PySlice(header, 34, 36)),
             orders |-> unpack_H(PySlice(header, 32, 34)),
             initial_speed |-> header[49 + 1],
             initial_tempo |-> header[50 + 1],
             global_volume |-> header[48 + 1]]

parse_s3m_header(file) == Except(s3m_try(file))

----------------------------------------------------------------------------
(* parse_mptm_header *)

\* (channels_or_64 reporting the count as it is)
channels_as_counted(channels) == channels

\* channels if channels > 0 else 64
channels_or_64(channels) == IF channels > 0 THEN channels ELSE 64

mptm_try(file) ==
    IF ~CanOpen(file) THEN Raise("OSError")
    ELSE
    LET header == Read(file, 0, 192)
        song_name_end == IF startswith(header, SIG_MPTM) THEN 32 ELSE 30
        song_name == strip(decode_ignore(split0(PySlice(header, 4, song_name_end))))
    IN  IF ~(startswith(header, SIG_IMPM) \/ startswith(header, SIG_MPTM)) THEN None
        ELSE IF startswith(header, SIG_IMPM) /\ ~CanUnpack(PySlice(header, 40, 42))
        THEN Raise("struct.error")
        ELSE IF \E a \in {32, 34, 36, 38} : ~CanUnpack(PySlice(header, a, a + 2))
        THEN Raise("struct.error")
        ELSE
        LET version_str ==
                IF startswith(header, SIG_IMPM) /\ unpack_H(PySlice(header, 40, 42)) >= 544
                THEN L(<<"1", ".", "2", "8", "+", " ", "(", "I", "T", " ", "c", "o", "m", "p", "a", "t", "i", "b", "l", "e", ")">>)
                ELSE L(<<"1", ".", "2", "8", "+">>)
            channel_settings == IF Len(header) >= 96 THEN PySlice(header, 64, 96) ELSE <<>>
            channels == count_channels(channel_settings, 128)
        IN  [format |-> fmt_mptm,
             format_long |-> "OpenMPT Module",
             source_format_version |-> version_str,
             tracker_tools |-> <<"OpenMPT">>,
             song_name |-> OrNone(song_name),
             channels |-> channels_or_64(channels),
             patterns |-> unpack_H(PySlice(header, 38, 40)),
             instruments |-> unpack_H(PySlice(header, 34, 36)),
             samples |-> unpack_H(PySlice(header, 36, 38)),
             orders |-> unpack_H(PySlice(header, 32, 34)),
             initial_speed |-> IF Len(header) > 50 THEN header[50 + 1] ELSE 6,
             initial_tempo |-> IF Len(header) > 51 THEN header[51 + 1] ELSE 125,
             global_volume |-> IF Len(header) > 48 THEN header[48 + 1] ELSE 64]

parse_mptm_header(file) == Except(mptm_try(file))

----------------------------------------------------------------------------
(* parse_ftm_header *)

\* (ftm_try searching the whole file instead of its first 100 bytes)
ftm_try_whole_file(file) ==
    IF ~CanOpen(file) THEN Raise("OSError")
    ELSE
    LET header == Read(file, 0, file.len)
    IN  IF ~Contains(header, FAMITRACKER) /\ ~Contains(header, FTM) THEN None
        ELSE [format |-> fmt_ftm,
              format_long |-> "FamiTracker Module",
              source_format_version |->
                  IF Contains(header, FAMITRACKER_MODULE) THEN L(<<"0", ".", "4", ".", "x", "+">>) ELSE STR_UNKNOWN,
              tracker_tools |-> <<"FamiTracker">>]

ftm_try(file) ==
    IF ~CanOpen(file) THEN Raise("OSError")
    ELSE
    LET header == Read(file, 0, 100)
    IN  IF ~Contains(header, FAMITRACKER) /\ ~Contains(header, FTM) THEN None
        ELSE [format |-> fmt_ftm,
              format_long |-> "FamiTracker Module",
              source_format_version |->
                  IF Contains(header, FAMITRACKER_MODULE) THEN L(<<"0", ".", "4", ".", "x", "+">>) ELSE STR_UNKNOWN,
              tracker_tools |-> <<"FamiTracker">>]

parse_ftm_header(file) == Except(ftm_try(file))

----------------------------------------------------------------------------
(* parse_nsf_header *)

\* (nsf_text without the split at the first NUL)
nsf_text_unsplit(header, offset) ==
    strip(decode_ignore(PySlice(header, offset, offset + 32)))

\* one 32-byte NUL-terminated text field of the NSF header
nsf_text(header, offset) ==
    strip(decode_ignore(split0(PySlice(header, offset, offset + 32))))

nsf_try(file) ==
    IF ~CanOpen(file) THEN Raise("OSError")
    ELSE
    LET header == Read(file, 0, 128)
    IN  IF ~(startswith(header, SIG_NESM) \/ startswith(header, SIG_NSFE)) THEN None
        ELSE IF Len(header) <= 7 THEN Raise("IndexError")
        ELSE [format |-> fmt_nsf,
              format_long |-> "NES Sound Format",
              source_format_version |-> <<118>> \o Dec(header[5 + 1]),
              tracker_tools |-> <<"Various NES composers">>,
              song_name |-> OrNone(nsf_text(header, 14)),
              artist |-> OrNone(nsf_text(header, 46)),
              copyright |-> OrNone(nsf_text(header, 78)),
              total_songs |-> header[6 + 1],
              starting_song |-> header[7 + 1]]

parse_nsf_header(file) == Except(nsf_try(file))

----------------------------------------------------------------------------
(* detect_format_by_signature *)

MOD_TAGS == {L(<<"M", ".", "K", ".">>), L(<<"M", "!", "K", ".">>), L(<<"F", "L", "T", "4">>), L(<<"6", "C", "H", "N">>), L(<<"8", "C", "H", "N">>)}

\* (detect_try with the NSF prefix checked before the FamiTracker substrings)
detect_try_nsf_first(file) ==
    IF ~CanOpen(file) THEN Raise("OSError")
    ELSE
    LET header == Read(file, 0, 1084)
    IN  [value |->
            IF startswith(header, SIG_XM) THEN fmt_xm
            ELSE IF startswith(header, SIG_IMPM) THEN fmt_it
            ELSE IF Len(header) >= 48 /\ PySlice(header, 44, 48) = SIG_SCRM
                    /\ header[28 + 1] = 26 THEN fmt_s3m
            ELSE IF Len(header) >= 1084 /\ PySlice(header, 1080, 1084) \in MOD_TAGS
                 THEN fmt_mod
            ELSE IF startswith(header, SIG_NESM) \/ startswith(header, SIG_NSFE)
                 THEN fmt_nsf
            ELSE IF Contains(header, FAMITRACKER) \/ Contains(header, FTM) THEN fmt_ftm
            ELSE PyNone]

\* (detect_try telling OpenMPT's IMPM files apart by their version word)
detect_try_mptm(file) ==
    IF ~CanOpen(file) THEN Raise("OSError")
    ELSE
    LET header == Read(file, 0, 1084)
    IN  [value |->
            IF startswith(header, SIG_XM) THEN fmt_xm
            ELSE IF startswith(header, SIG_IMPM)
                 THEN IF CanUnpack(PySlice(header, 40, 42))
                         /\ unpack_H(PySlice(header, 40, 42)) >= 544
                      THEN fmt_mptm ELSE fmt_it
            ELSE IF Len(header) >= 48 /\ PySlice(header, 44, 48) = SIG_SCRM
                    /\ header[28 + 1] = 26 THEN fmt_s3m
            ELSE IF Len(header) >= 1084 /\ PySlice(header, 1080, 1084) \in MOD_TAGS
                 THEN fmt_mod
            ELSE IF Contains(header, FAMITRACKER) \/ Contains(header, FTM) THEN fmt_ftm
            ELSE IF startswith(header, SIG_NESM) \/ startswith(header, SIG_NSFE)
                 THEN fmt_nsf
            ELSE PyNone]

detect_try(file) ==
    IF ~CanOpen(file) THEN Raise("OSError")
    ELSE
    LET header == Read(file, 0, 1084)
    IN  [value |->
            IF startswith(header, SIG_XM) THEN fmt_xm
            ELSE IF startswith(header, SIG_IMPM) THEN fmt_it
            ELSE IF Len(header) >= 48 /\ PySlice(header, 44, 48) = SIG_SCRM
                    /\ header[28 + 1] = 26 THEN fmt_s3m
            ELSE IF Len(header) >= 1084 /\ PySlice(header, 1080, 1084) \in MOD_TAGS
                 THEN fmt_mod
            ELSE IF Contains(header, FAMITRACKER) \/ Contains(header, FTM) THEN fmt_ftm
            ELSE IF startswith(header, SIG_NESM) \/ startswith(header, SIG_NSFE)
                 THEN fmt_nsf
            ELSE PyNone]

\* except Exception: pass, followed by return None
ExceptPass(v) == IF IsRaise(v) THEN [value |-> PyNone] ELSE v

detect_format_by_signature(file) == ExceptPass(detect_try(file)).value

----------------------------------------------------------------------------
(* extract_tracker_format_metadata: its tables and expressions *)

\* the keys of the parsers dict
ParserKeys == {fmt_xm, fmt_it, fmt_mod, fmt_s3m, fmt_mptm, fmt_ftm, fmt_nsf}

\* parsers[fmt](tracker_path)
parsers(fmt, file) ==
    CASE fmt = fmt_xm -> parse_xm_header(file)
      [] fmt = fmt_it -> parse_it_header(file)
      [] fmt = fmt_mod -> parse_mod_header(file)
      [] fmt = fmt_s3m -> parse_s3m_header(file)
      [] fmt = fmt_mptm -> parse_mptm_header(file)
      [] fmt = fmt_ftm -> parse_ftm_header(file)
      [] fmt = fmt_nsf -> parse_nsf_header(file)

\* (ExtOf without .lower())
ExtKeepCase(name) == lstrip_dot(suffix(name))

\* tracker_path.suffix.lower().lstrip(".")
ExtOf(name) == lstrip_dot(lower(suffix(name)))

\* (NoteText without .upper())
NoteTextNoUpper(e, detected) ==
    L(<<"F", "i", "l", "e", " ", "h", "a", "s", " ", ".">>) \o e \o L(<<" ", "e", "x", "t", "e", "n", "s", "i", "o", "n", " ", "b", "u", "t", " ", "i", "s", " ", "a", "c", "t", "u", "a", "l", "l", "y", " ">>) \o detected \o L(<<" ", "f", "o", "r", "m", "a", "t">>)

\* the f-string stored under "_note"
NoteText(e, detected) ==
    L(<<"F", "i", "l", "e", " ", "h", "a", "s", " ", ".">>) \o e \o L(<<" ", "e", "x", "t", "e", "n", "s", "i", "o", "n", " ", "b", "u", "t", " ", "i", "s", " ", "a", "c", "t", "u", "a", "l", "l", "y", " ">>) \o upper(detected) \o L(<<" ", "f", "o", "r", "m", "a", "t">>)

\* (WithNote without the comparison of the detected format with the extension)
WithNoteAlways(m, e, detected) ==
    [k \in DOMAIN m \cup {"_note"} |-> IF k = "_note" THEN NoteText(e, detected) ELSE m[k]]

\* metadata["_note"] = ... when the detected format is not the extension
WithNote(m, e, detected) ==
    IF detected # e
    THEN [k \in DOMAIN m \cup {"_note"} |-> IF k = "_note" THEN NoteText(e, detected) ELSE m[k]]
    ELSE m

format_names ==
    [e \in {fmt_it, fmt_xm, fmt_mod, fmt_s3m, fmt_ftm, fmt_nsf, fmt_mptm,
            L(<<"u", "m", "x">>), L(<<"m", "t", "2">>), L(<<"m", "d", "z">>), L(<<"s", "3", "z">>), L(<<"x", "m", "z">>), L(<<"i", "t", "z">>)} |->
        CASE e = fmt_it -> "Impulse Tracker"
          [] e = fmt_xm -> "Extended Module"
          [] e = fmt_mod -> "ProTracker Module"
          [] e = fmt_s3m -> "ScreamTracker 3"
          [] e = fmt_ftm -> "FamiTracker Module"
          [] e = fmt_nsf -> "NES Sound Format"
          [] e = fmt_mptm -> "OpenMPT Module"
          [] e = L(<<"u", "m", "x">>) -> "Unreal Music Package"
          [] e = L(<<"m", "t", "2">>) -> "MadTracker 2"
          [] e = L(<<"m", "d", "z">>) -> "Compressed MOD"
          [] e = L(<<"s", "3", "z">>) -> "Compressed S3M"
          [] e = L(<<"x", "m", "z">>) -> "Compressed XM"
          [] e = L(<<"i", "t", "z">>) -> "Compressed IT"]

\* (Stub without the format_names lookup)
StubGeneric(e) ==
    [format |-> e,
     format_long |-> "Tracker Module",
     source_format_version |-> STR_UNKNOWN,
     tracker_tools |-> <<"Unknown">>]

\* the minimal record returned when no decoder produced one
Stub(e) ==
    [format |-> e,
     format_long |-> IF e \in DOMAIN format_names THEN format_names[e] ELSE "Tracker Module",
     source_format_version |-> STR_UNKNOWN,
     tracker_tools |-> <<"Unknown">>]

----------------------------------------------------------------------------
(* Input files: headers laid out as the format references describe them *)

Missing == [kind |-> "missing"]
Denied == [kind |-> "denied"]

Blank(len, fill) == [kind |-> "file", len |-> len, fill |-> fill, at |-> <<>>]

\* the file with `bytes` written at offset `off`
Put(file, off, bytes) ==
    [file EXCEPT !.at = [i \in off..(off + Len(bytes) - 1) |-> bytes[i - off + 1]] @@ @]

\* a 16-bit little-endian word
Word(n) == <<n % 256, n \div 256>>

Rep(n, b) == [i \in 1..n |-> b]

XmFile(len, name, word38, song_len, channels) ==
    Put(Put(Put(Put(Put(Blank(len, 0), 0, SIG_XM), 17, name), 37, <<26>>), 38, Word(word38)),
        60, <<20, 1, 0, 0>> \o Word(song_len) \o Word(0) \o Word(channels) \o Word(5)
            \o Word(7) \o Word(1) \o Word(6) \o Word(125))

ItFile(len, sig, name, version, chans) ==
    Put(Put(Put(Put(Put(Blank(len, 0), 0, sig), 4, name),
        32, Word(3) \o Word(2) \o Word(4) \o Word(5) \o Word(version)),
        48, <<128, 48, 6, 125>>), 64, chans)

S3mFile(len, title, version, chans) ==
    Put(Put(Put(Put(Put(Blank(len, 0), 0, title), 28, <<26, 16>>),
        32, Word(3) \o Word(2) \o Word(5) \o Word(0) \o Word(version) \o Word(2)),
        44, SIG_SCRM \o <<64, 6, 125, 48>>), 64, chans)

ModFile(len, fill, tag, song_length, orders) ==
    Put(Put(Put(Put(Blank(len, fill), 0, L(<<"s", "o", "n", "g">>) \o <<0>>), 950, <<song_length, 127>>),
        952, orders), 1080, tag)

NsfFile(len, sig, name, artist, copyright) ==
    Put(Put(Put(Put(Put(Blank(len, 0), 0, sig), 5, <<1, 12, 1>>), 14, name), 46, artist),
        78, copyright)

GenericFiles ==
    {Missing, Denied}
    \cup {Blank(n, b) : n \in {0, 10, 79, 80, 2000}, b \in {0, 65, 255}}

XmFiles ==
    {XmFile(n, L(<<"t", "u", "n", "e">>), 260, 1, 8) : n \in {17, 40, 75, 76, 79, 80, 400}}
    \cup {XmFile(336, nm, v, sl, ch) :
            nm \in {<<>>, L(<<"m", "a", "d", "e", " ", "w", ".", " ", "O", "p", "e", "n", "M", "P", "T">>), L(<<" ", "x", " ">>), L(<<"M", "i", "l", "k", "y", "T", "r", "a", "c", "k", "e", "r">>), <<200, 65>>},
            v \in {260, 24902}, sl \in {1, 8}, ch \in {8, 32}}

ItFiles ==
    {ItFile(n, sig, L(<<"s", "o", "n", "g">>), 532, Rep(32, 32)) :
            n \in {4, 39, 40, 41, 42, 51, 52, 100, 192}, sig \in {SIG_IMPM, SIG_MPTM}}
    \cup {ItFile(192, sig, nm, v, ch) :
            sig \in {SIG_IMPM, SIG_MPTM}, nm \in {<<>>, L(<<" ", "i", "t", " ">>)},
            v \in {532, 544, 2184},
            ch \in {Rep(32, 255), Rep(4, 0) \o Rep(28, 255), Rep(2, 127) \o Rep(30, 128)}}

S3mFiles ==
    {S3mFile(n, L(<<"t", "i", "t", "l", "e">>), 4896, <<0, 1, 8, 9>>) : n \in {29, 41, 47, 48, 50, 51, 64, 96, 500}}
    \cup {S3mFile(96, t, v, ch) :
            t \in {<<>>, SIG_IMPM \o L(<<" ", "s", "o", "n", "g">>), SIG_XM \o L(<<"x">>), FTM, SIG_NSFE},
            v \in {4896, 12345},
            ch \in {Rep(32, 255), <<0, 1, 8, 9, 31, 32, 128, 255>>, Rep(32, 0)}}

ModFiles ==
    {ModFile(n, 0, L(<<"M", ".", "K", ".">>), 3, <<2, 0, 1>>) : n \in {950, 951, 952, 953, 1083, 1084, 3000}}
    \cup {ModFile(n, 0, L(<<"M", ".", "K", ".">>), 0, <<>>) : n \in {951, 1084}}
    \cup {ModFile(1084, 0, tag, 3, <<2, 0, 1>>) :
            tag \in {L(<<"M", "!", "K", ".">>), L(<<"M", "!", "K", "!">>), L(<<"F", "L", "T", "4">>), L(<<"6", "C", "H", "N">>), L(<<"8", "C", "H", "N">>), L(<<"2", "C", "H", "N">>), L(<<"x", "C", "H", "N">>),
                     <<255>> \o L(<<"C", "H", "N">>), L(<<"M", "&", "K", "!">>), <<0, 0, 0, 0>>}}
    \cup {ModFile(1084, fill, L(<<"M", ".", "K", ".">>), sl, ord) :
            fill \in {0, 7}, sl \in {0, 1, 3, 128, 129, 255},
            ord \in {<<>>, <<2, 0, 1>>, <<0, 0, 0, 9>>, <<255>>, Rep(127, 1) \o <<63>>}}

FtmFiles ==
    {Put(Blank(n, 0), off, t) :
            n \in {3, 50, 100, 1084, 2000}, off \in {0, 20, 97, 98, 500, 1081, 1082},
            t \in {FTM, FAMITRACKER_MODULE}}
    \cup {Put(NsfFile(128, sig, L(<<"T", "i", "t", "l", "e">>), <<>>, <<>>), 20, FTM) : sig \in {SIG_NESM, SIG_NSFE}}

NsfFiles ==
    {NsfFile(n, sig, L(<<"T", "i", "t", "l", "e">>), L(<<"A", "r", "t", "i", "s", "t">>), L(<<"(", "c", ")", " ", "1", "9", "9", "0">>)) :
            n \in {4, 5, 7, 8, 79, 127, 128, 200}, sig \in {SIG_NESM, SIG_NSFE}}
    \cup {NsfFile(128, SIG_NESM, nm, ar, cp) :
            nm \in {<<>>, L(<<"T", "i", "t", "l", "e">>), L(<<" ", "T", "i", "t", "l", "e", " ">>), L(<<"T", "i">>) \o <<0>> \o L(<<"t", "l", "e">>), <<84, 233, 116>>,
                    <<9, 32>>, Rep(32, 65)},
            ar \in {<<>>, L(<<"A", "r", "t", "i", "s", "t">>) \o <<31>>},
            cp \in {<<>>, <<169>>, L(<<"1", "9", "9", "0", " ">>)}}

\* the files every file name is tried with
CoreFiles ==
    {Missing, Denied, Blank(0, 0), Blank(79, 65), Blank(2000, 0),
     XmFile(336, L(<<"t", "u", "n", "e">>), 260, 1, 8), XmFile(79, L(<<"t", "u", "n", "e">>), 260, 1, 8),
     ItFile(192, SIG_IMPM, L(<<"s", "o", "n", "g">>), 532, Rep(32, 32)),
     ItFile(192, SIG_MPTM, L(<<"s", "o", "n", "g">>), 532, Rep(32, 32)),
     ItFile(4, SIG_IMPM, <<>>, 532, <<>>),
     S3mFile(96, L(<<"t", "i", "t", "l", "e">>), 4896, <<0, 1, 8, 9>>), S3mFile(48, L(<<"t", "i", "t", "l", "e">>), 4896, <<>>),
     S3mFile(96, SIG_IMPM \o L(<<" ", "s", "o", "n", "g">>), 4896, <<0, 1, 8, 9>>),
     ModFile(1084, 0, L(<<"M", ".", "K", ".">>), 3, <<2, 0, 1>>), ModFile(1084, 0, L(<<"M", "!", "K", "!">>), 3, <<2, 0, 1>>),
     ModFile(1083, 0, L(<<"M", ".", "K", ".">>), 3, <<2, 0, 1>>),
     Put(Blank(100, 0), 0, FAMITRACKER_MODULE), Put(Blank(2000, 0), 500, FTM),
     Put(Blank(3, 0), 0, FTM),
     NsfFile(128, SIG_NESM, L(<<"T", "i", "t", "l", "e">>), L(<<"A", "r", "t", "i", "s", "t">>), <<>>), NsfFile(7, SIG_NSFE, <<>>, <<>>, <<>>)}

AllFiles ==
    GenericFiles \cup XmFiles \cup ItFiles \cup S3mFiles \cup ModFiles \cup FtmFiles
    \cup NsfFiles \cup CoreFiles

AllNames ==
    {L(<<"t", ".", "x", "m">>), L(<<"T", ".", "X", "M">>), L(<<"t", ".", "i", "t">>), L(<<"t", ".", "m", "o", "d">>), L(<<"t", ".", "s", "3", "m">>), L(<<"t", ".", "m", "p", "t", "m">>), L(<<"t", ".", "f", "t", "m">>), L(<<"t", ".", "n", "s", "f">>),
     L(<<"t", ".", "x", "y", "z">>), L(<<"t", ".", "u", "m", "x">>), L(<<"t">>), L(<<".", "x", "m">>), L(<<"a", ".", "b", ".", "S", "3", "m">>)}

\* the file names every file is tried with
WideNames == {L(<<"t", ".", "x", "m">>), L(<<"t", ".", "m", "o", "d">>), L(<<"t", ".", "x", "y", "z">>)}

Inputs ==
    {[name |-> n, file |-> f] : n \in AllNames, f \in CoreFiles}
    \cup {[name |-> n, file |-> f] : n \in WideNames, f \in AllFiles}

\* a second file of the same directory
OtherName == L(<<"o", "t", "h", "e", "r", ".", "m", "o", "d">>)
OtherFile == ModFile(1084, 0, L(<<"8", "C", "H", "N">>), 3, <<2, 0, 1>>)

----------------------------------------------------------------------------
(* State *)

MaxCalls == 2

NoReturn == [fn |-> "none"]

\* no function is being called
NoFrame == [fn |-> "none"]

\* _upload_cache: None until get_upload_cache() has loaded the dictionary
NotLoaded == [loaded |-> FALSE]

Init ==
    /\ \E inp \in Inputs :
          /\ fs = (inp.name :> inp.file) @@ (OtherName :> OtherFile)
          /\ first = [path |-> inp.name, file |-> inp.file, calls |-> 0,
                       between |-> FALSE, value |-> None]
    /\ pc = "idle"
    /\ tracker_path = <<>>
    /\ ext = <<>>
    /\ detected_format = PyNone
    /\ metadata = None
    /\ ret = NoReturn
    /\ environ = <<>>
    /\ handles = {}
    /\ frame = NoFrame
    /\ s3 = <<>>
    /\ upload_cache = NotLoaded

----------------------------------------------------------------------------
(* extract_tracker_format_metadata, one step per statement group *)

\* the caller invokes the dispatcher; ext is computed.  detected_format and
\* metadata are unbound until a later step assigns them: they keep their old
\* values here, which no step reads before assigning.
Call(p) ==
    /\ pc = "idle"
    /\ p = first.path => first.calls < MaxCalls
    /\ tracker_path' = p
    /\ ext' = ExtOf(p)
    /\ pc' = "detect"
    /\ UNCHANGED <<fs, detected_format, metadata, ret, first, environ, handles, frame, s3, upload_cache>>

\* (Detect with a detection result that outlives the call)
DetectCached ==
    /\ pc = "detect"
    /\ LET d == detect_format_by_signature(fs[tracker_path])
       IN  detected_format' = IF d = PyNone THEN detected_format ELSE d
    /\ pc' = IF detected_format' # PyNone /\ detected_format' \in ParserKeys
             THEN "signature" ELSE "extension"
    /\ fs' = [fs EXCEPT ![tracker_path] = OpenRB(@)]
    /\ UNCHANGED <<tracker_path, ext, metadata, ret, first, environ, handles, frame, s3, upload_cache>>

\* detected_format = detect_format_by_signature(tracker_path)
Detect ==
    /\ pc = "detect"
    /\ detected_format' = detect_format_by_signature(fs[tracker_path])
    /\ pc' = IF detected_format' # PyNone /\ detected_format' \in ParserKeys
             THEN "signature" ELSE "extension"
    /\ fs' = [fs EXCEPT ![tracker_path] = OpenRB(@)]
    /\ UNCHANGED <<tracker_path, ext, metadata, ret, first, environ, handles, frame, s3, upload_cache>>

\* (SigDecode giving up on the file when the detected decoder fails)
SigDecodeThenStub ==
    /\ pc = "signature"
    /\ LET m == parsers(detected_format, fs[tracker_path])
       IN  IF IsRaise(m) THEN metadata' = m /\ pc' = "return"
           ELSE IF IsRecord(m)
           THEN metadata' = WithNote(m, ext, detected_format) /\ pc' = "return"
           ELSE metadata' = m /\ pc' = "stub"
    /\ fs' = [fs EXCEPT ![tracker_path] = OpenRB(@)]
    /\ UNCHANGED <<tracker_path, ext, detected_format, ret, first, environ, handles, frame, s3, upload_cache>>

\* metadata = parsers[detected_format](tracker_path), with the note
SigDecode ==
    /\ pc = "signature"
    /\ LET m == parsers(detected_format, fs[tracker_path])
       IN  IF IsRaise(m) THEN metadata' = m /\ pc' = "return"
           ELSE IF IsRecord(m)
           THEN metadata' = WithNote(m, ext, detected_format) /\ pc' = "return"
           ELSE metadata' = m /\ pc' = "extension"
    /\ fs' = [fs EXCEPT ![tracker_path] = OpenRB(@)]
    /\ UNCHANGED <<tracker_path, ext, detected_format, ret, first, environ, handles, frame, s3, upload_cache>>

\* fall back to the decoder the extension names
ExtDecode ==
    /\ pc = "extension"
    /\ IF ext \in ParserKeys
       THEN LET m == parsers(ext, fs[tracker_path])
            IN  /\ metadata' = m
                /\ pc' = IF IsRaise(m) \/ IsRecord(m) THEN "return" ELSE "stub"
                /\ fs' = [fs EXCEPT ![tracker_path] = OpenRB(@)]
       ELSE /\ pc' = "stub"
            /\ UNCHANGED <<metadata, fs>>
    /\ UNCHANGED <<tracker_path, ext, detected_format, ret, first, environ, handles, frame, s3, upload_cache>>

\* minimal metadata based on the extension
ReturnStub ==
    /\ pc = "stub"
    /\ metadata' = Stub(ext)
    /\ pc' = "return"
    /\ UNCHANGED <<fs, tracker_path, ext, detected_format, ret, first, environ, handles, frame, s3, upload_cache>>

\* the record (or the exception) reaches the caller
Return ==
    /\ pc = "return"
    /\ ret' = [fn |-> "extract_tracker_format_metadata", path |-> tracker_path,
               value |-> metadata]
    /\ first' = IF tracker_path = first.path
                THEN [first EXCEPT !.calls = @ + 1,
                                   !.value = IF first.calls = 0 THEN metadata ELSE @]
                ELSE [first EXCEPT !.between = @ \/ first.calls = 1]
    /\ pc' = "idle"
    /\ UNCHANGED <<fs, tracker_path, ext, detected_format, metadata, environ, handles, frame, s3, upload_cache>>

Next ==
    \/ \E p \in DOMAIN fs : Call(p)
    \/ Detect
    \/ SigDecode
    \/ ExtDecode
    \/ ReturnStub
    \/ Return

Spec == Init /\ [][Next]_vars

----------------------------------------------------------------------------
(* The detector and the decoders called on their own *)

DecoderNames ==
    (fmt_xm :> "parse_xm_header") @@ (fmt_it :> "parse_it_header")
    @@ (fmt_mod :> "parse_mod_header") @@ (fmt_s3m :> "parse_s3m_header")
    @@ (fmt_mptm :> "parse_mptm_header") @@ (fmt_ftm :> "parse_ftm_header")
    @@ (fmt_nsf :> "parse_nsf_header")

CallDecoder(fmt, p) ==
    /\ pc = "idle"
    /\ ret' = [fn |-> DecoderNames[fmt], path |-> p, value |-> parsers(fmt, fs[p])]
    /\ fs' = [fs EXCEPT ![p] = OpenRB(@)]
    /\ UNCHANGED <<pc, tracker_path, ext, detected_format, metadata, first, environ, handles, frame, s3, upload_cache>>

CallDetector(p) ==
    /\ pc = "idle"
    /\ ret' = [fn |-> "detect_format_by_signature", path |-> p,
               value |-> detect_format_by_signature(fs[p])]
    /\ fs' = [fs EXCEPT ![p] = OpenRB(@)]
    /\ UNCHANGED <<pc, tracker_path, ext, detected_format, metadata, first, environ, handles, frame, s3, upload_cache>>

NextUnits ==
    \/ \E fmt \in ParserKeys : CallDecoder(fmt, first.path)
    \/ CallDetector(first.path)

SpecUnits == Init /\ [][NextUnits]_vars

----------------------------------------------------------------------------
(* Properties *)

DISPATCHER == "extract_tracker_format_metadata"
DETECTOR == "detect_format_by_signature"

\* the dispatcher has just returned to its caller
Returned == pc = "idle" /\ ret.fn = DISPATCHER

\* the file the last call was made on
RetFile == fs[ret.path]

\* the bytes of RetFile at offsets a..b-1 that exist
BytesAt(file, a, b) == [i \in 1..Max(0, Min(b, file.len) - a) |-> ByteAt(file, a + i - 1)]

C2_SignatureWins ==
    (Returned /\ detected_format \in ParserKeys
       /\ IsRecord(parsers(detected_format, RetFile))) =>
    LET m == parsers(detected_format, RetFile)
    IN  /\ ret.value.format = detected_format
        /\ \A k \in DOMAIN m : ret.value[k] = m[k]
        /\ DOMAIN ret.value \subseteq DOMAIN m \cup {"_note"}
        /\ (/\ BytesAt(RetFile, 28, 29) = <<26>>
            /\ BytesAt(RetFile, 44, 48) = SIG_SCRM
            /\ ext = fmt_xm
            /\ detected_format = fmt_s3m) =>
              /\ ret.value.format = fmt_s3m
              /\ "_note" \in DOMAIN ret.value
              /\ ret.value["_note"] =
                    L(<<"F", "i", "l", "e", " ", "h", "a", "s", " ", ".", "x", "m", " ", "e", "x", "t", "e", "n", "s", "i", "o", "n", " ", "b", "u", "t", " ", "i", "s", " ", "a", "c", "t", "u", "a", "l", "l", "y", " ", "S", "3", "M", " ", "f", "o", "r", "m", "a", "t">>)

C2_Witness ==
    /\ Returned
    /\ BytesAt(RetFile, 28, 29) = <<26>>
    /\ BytesAt(RetFile, 44, 48) = SIG_SCRM
    /\ lower(ret.path) = L(<<"t", ".", "x", "m">>)
    /\ ret.value.format = fmt_s3m
    /\ "_note" \in DOMAIN ret.value

\* C3: the detector checks, in this order, the XM prefix, the IMPM prefix,
\* SCRM at 44..47 with 0x1A at 28, a MOD tag at 1080..1083 of a buffer of at
\* least 1084 bytes, the substrings FamiTracker / FTM, the NESM\x1a / NSFE
\* prefix, and returns the format of the first check that matches (an
\* NESM-prefixed buffer that holds FTM is ftm), None when none matches.
C3_FirstMatchWins ==
    (ret.fn = DETECTOR /\ CanOpen(RetFile)) =>
    LET buf == BytesAt(RetFile, 0, 1084)
        isXm == startswith(buf, L(<<"E", "x", "t", "e", "n", "d", "e", "d", " ", "M", "o", "d", "u", "l", "e", ":", " ">>))
        isIt == startswith(buf, L(<<"I", "M", "P", "M">>))
        isS3m == BytesAt(RetFile, 44, 48) = L(<<"S", "C", "R", "M">>) /\ BytesAt(RetFile, 28, 29) = <<26>>
        isMod == /\ Len(buf) >= 1084
                 /\ BytesAt(RetFile, 1080, 1084) \in
                       {L(<<"M", ".", "K", ".">>), L(<<"M", "!", "K", ".">>), L(<<"F", "L", "T", "4">>), L(<<"6", "C", "H", "N">>), L(<<"8", "C", "H", "N">>)}
        isFtm == Contains(buf, L(<<"F", "a", "m", "i", "T", "r", "a", "c", "k", "e", "r">>)) \/ Contains(buf, L(<<"F", "T", "M">>))
        isNsf == \/ startswith(buf, L(<<"N", "E", "S", "M">>) \o <<26>>)
                 \/ startswith(buf, L(<<"N", "S", "F", "E">>))
    IN  /\ isXm => ret.value = L(<<"x", "m">>)
        /\ ~isXm /\ isIt => ret.value = L(<<"i", "t">>)
        /\ ~isXm /\ ~isIt /\ isS3m => ret.value = L(<<"s", "3", "m">>)
        /\ ~isXm /\ ~isIt /\ ~isS3m /\ isMod => ret.value = L(<<"m", "o", "d">>)
        /\ ~isXm /\ ~isIt /\ ~isS3m /\ ~isMod /\ isFtm => ret.value = L(<<"f", "t", "m">>)
        /\ ~isXm /\ ~isIt /\ ~isS3m /\ ~isMod /\ ~isFtm /\ isNsf => ret.value = L(<<"n", "s", "f">>)
        /\ ~isXm /\ ~isIt /\ ~isS3m /\ ~isMod /\ ~isFtm /\ ~isNsf => ret.value = PyNone

\* an NESM-prefixed buffer that contains FTM was classified ftm
C3_Witness ==
    /\ ret.fn = DETECTOR
    /\ CanOpen(RetFile)
    /\ startswith(BytesAt(RetFile, 0, 5), L(<<"N", "E", "S", "M">>) \o <<26>>)
    /\ Contains(BytesAt(RetFile, 0, 1084), L(<<"F", "T", "M">>))
    /\ ret.value = L(<<"f", "t", "m">>)

\* C4: the detector never returns mptm: its result is one of xm, it, s3m,
\* mod, ftm, nsf, None, and every buffer that starts with IMPM is it.
C4_NeverMptm ==
    ret.fn = DETECTOR =>
        /\ ret.value \in {L(<<"x", "m">>), L(<<"i", "t">>), L(<<"s", "3", "m">>), L(<<"m", "o", "d">>), L(<<"f", "t", "m">>), L(<<"n", "s", "f">>), PyNone}
        /\ (CanOpen(RetFile) /\ BytesAt(RetFile, 0, 4) = L(<<"I", "M", "P", "M">>)) => ret.value = L(<<"i", "t">>)

\* an IMPM file that the MPTM decoder accepts as OpenMPT's was classified it
C4_Witness ==
    /\ ret.fn = DETECTOR
    /\ CanOpen(RetFile)
    /\ BytesAt(RetFile, 0, 4) = L(<<"I", "M", "P", "M">>)
    /\ IsRecord(parse_mptm_header(RetFile))
    /\ parse_mptm_header(RetFile).source_format_version = L(<<"1", ".", "2", "8", "+", " ", "(", "I", "T", " ", "c", "o", "m", "p", "a", "t", "i", "b", "l", "e", ")">>)
    /\ ret.value = L(<<"i", "t">>)

DECODERS ==
    {"parse_xm_header", "parse_it_header", "parse_mod_header", "parse_s3m_header",
     "parse_mptm_header", "parse_ftm_header", "parse_nsf_header"}

\* C5: for any file shorter than 80 bytes each of the seven decoders returns
\* None (and the dispatcher returns the extension stub).
C5_ShortFileRejected ==
    (ret.fn \in DECODERS /\ CanOpen(RetFile) /\ RetFile.len < 80) => ret.value = None

\* C6: for an XM file with the "Extended Module: " prefix and the standard
\* header (header size at 60, then song length, restart position, channel
\* count, pattern count as 16-bit words) parse_xm_header returns a record with
\* format xm whose channels is the declared channel-count word, at offset 68.
C6_XmChannelsDeclared ==
    (/\ ret.fn = "parse_xm_header"
     /\ CanOpen(RetFile)
     /\ RetFile.len >= 80
     /\ BytesAt(RetFile, 0, 17) = L(<<"E", "x", "t", "e", "n", "d", "e", "d", " ", "M", "o", "d", "u", "l", "e", ":", " ">>)) =>
        /\ IsRecord(ret.value)
        /\ ret.value.format = L(<<"x", "m">>)
        /\ ret.value.channels = ByteAt(RetFile, 68) + 256 * ByteAt(RetFile, 69)

\* C7: decoding is idempotent and stateless: a later call of the dispatcher on
\* an unchanged file returns the record its first call returned, whatever
\* calls on other files came in between.
C7_Idempotent ==
    (Returned /\ ret.path = first.path) =>
        /\ ret.value = first.value
        /\ fs[first.path] = first.file

\* the file was decoded, then another file, then the file again
C7_Witness ==
    /\ Returned
    /\ ret.path = first.path
    /\ first.calls = 2
    /\ first.between
    /\ IsRecord(ret.value)

\* C8: parse_mod_header reports patterns = 1 + the largest of the first
\* song_length entries (song_length = byte 950, at most 128 entries) of the
\* order table at 952..1079, and 1 when song_length is 0; song_length 3 with
\* orders 2, 0, 1 gives 3; patterns is always in 1..256.
C8_ModPatterns ==
    (ret.fn = "parse_mod_header" /\ IsRecord(ret.value)) =>
    LET song_length == ByteAt(RetFile, 950)
        last == Min(Min(952 + song_length, 1080), RetFile.len) - 1
        played == {ByteAt(RetFile, i) : i \in 952..last}
    IN  /\ ret.value.song_length = song_length
        /\ song_length = 0 => ret.value.patterns = 1
        /\ song_length > 0 =>
              /\ ret.value.patterns - 1 \in played
              /\ \A o \in played : o <= ret.value.patterns - 1
        /\ (song_length = 3 /\ BytesAt(RetFile, 952, 955) = <<2, 0, 1>>) =>
              ret.value.patterns = 3
        /\ ret.value.patterns \in 1..256

\* song_length 3 with orders 2, 0, 1 was decoded
C8_Witness ==
    /\ ret.fn = "parse_mod_header"
    /\ IsRecord(ret.value)
    /\ ByteAt(RetFile, 950) = 3
    /\ BytesAt(RetFile, 952, 955) = <<2, 0, 1>>
    /\ ret.value.patterns = 3

\* the extension the caller sees: the text after the last dot of the name,
\* lower-cased, when that dot is neither the first nor the last character
LowercaseExtension(name) ==
    IF \E i \in 2..(Len(name) - 1) : name[i] = 46 /\ \A j \in (i + 1)..Len(name) : name[j] # 46
    THEN LET i == CHOOSE i \in 2..(Len(name) - 1) :
                      name[i] = 46 /\ \A j \in (i + 1)..Len(name) : name[j] # 46
         IN  [k \in 1..(Len(name) - i) |->
                 IF name[i + k] \in 65..90 THEN name[i + k] + 32 ELSE name[i + k]]
    ELSE <<>>

\* C9: when neither the signature-detected decoder nor the extension-implied
\* decoder yields a record, the dispatcher returns a stub with exactly the
\* keys format, format_long, source_format_version, tracker_tools: format is
\* the lowercase extension without its dot, format_long the table entry of the
\* extension or "Tracker Module", the version "unknown", the tools ["Unknown"].
C9_Stub ==
    (/\ Returned
     /\ ~(detected_format \in ParserKeys /\ IsRecord(parsers(detected_format, RetFile)))
     /\ ~(ext \in ParserKeys /\ IsRecord(parsers(ext, RetFile)))) =>
        /\ DOMAIN ret.value = {"format", "format_long", "source_format_version", "tracker_tools"}
        /\ ret.value.format = LowercaseExtension(ret.path)
        /\ ret.value.format_long =
              IF ret.value.format \in DOMAIN format_names
              THEN format_names[ret.value.format] ELSE "Tracker Module"
        /\ ret.value.format = L(<<"x", "y", "z">>) => ret.value.format_long = "Tracker Module"
        /\ ret.value.format = L(<<"x", "m">>) => ret.value.format_long = "Extended Module"
        /\ ret.value.source_format_version = L(<<"u", "n", "k", "n", "o", "w", "n">>)
        /\ ret.value.tracker_tools = <<"Unknown">>

\* a readable .XM file without any signature got the stub of xm
C9_Witness ==
    /\ Returned
    /\ ret.path = L(<<"T", ".", "X", "M">>)
    /\ CanOpen(RetFile)
    /\ detected_format = PyNone
    /\ ret.value.format = L(<<"x", "m">>)
    /\ ret.value.tracker_tools = <<"Unknown">>

\* the bytes of a 32-byte field up to, not including, its first NUL
UpToNul(file, offset) ==
    LET field == BytesAt(file, offset, offset + 32)
        nuls == {i \in 1..Len(field) : field[i] = 0}
    IN  IF nuls = {} THEN field
        ELSE SubSeq(field, 1, (CHOOSE i \in nuls : \A j \in nuls : i <= j) - 1)

\* C10 as stated: song_name, artist and copyright are the bytes of their
\* 32-byte fields (offsets 14, 46, 78) up to the first NUL.
C10_NsfTextRaw ==
    (ret.fn = "parse_nsf_header" /\ IsRecord(ret.value)) =>
        /\ ret.value.song_name = UpToNul(RetFile, 14)
        /\ ret.value.artist = UpToNul(RetFile, 46)
        /\ ret.value.copyright = UpToNul(RetFile, 78)

\* what parse_nsf_header makes of the bytes up to the first NUL: the ASCII
\* ones, without leading and trailing whitespace, or None when nothing is left
Trimmed(raw) ==
    LET ascii == SelectSeq(raw, LAMBDA b : b <= 127)
        keep == {i \in 1..Len(ascii) : ~IsSpace(ascii[i])}
    IN  IF keep = {} THEN PyNone
        ELSE SubSeq(ascii, CHOOSE i \in keep : \A j \in keep : i <= j,
                           CHOOSE i \in keep : \A j \in keep : j <= i)

\* C10 amended: each of song_name, artist and copyright is decoded from the
\* bytes of its 32-byte field up to the first NUL, dropping the non-ASCII
\* bytes and the leading and trailing whitespace, and is None when nothing is
\* left; a field holding "Title" and NUL padding decodes to "Title".
C10_NsfText ==
    (ret.fn = "parse_nsf_header" /\ IsRecord(ret.value)) =>
        /\ ret.value.song_name = Trimmed(UpToNul(RetFile, 14))
        /\ ret.value.artist = Trimmed(UpToNul(RetFile, 46))
        /\ ret.value.copyright = Trimmed(UpToNul(RetFile, 78))
        /\ BytesAt(RetFile, 14, 20) = L(<<"T", "i", "t", "l", "e">>) \o <<0>> => ret.value.song_name = L(<<"T", "i", "t", "l", "e">>)

\* a song name written with blanks around it was decoded
C10_Witness ==
    /\ ret.fn = "parse_nsf_header"
    /\ IsRecord(ret.value)
    /\ BytesAt(RetFile, 14, 22) = L(<<" ", "T", "i", "t", "l", "e", " ">>) \o <<0>>
    /\ ret.value.song_name = L(<<"T", "i", "t", "l", "e">>)
    /\ ret.value.copyright = PyNone

\* the file carries the signature of the format, as the decoder of that
\* format reads it
Carries(fmt, file) ==
    /\ CanOpen(file)
    /\ CASE fmt = L(<<"x", "m">>) -> BytesAt(file, 0, 17) = L(<<"E", "x", "t", "e", "n", "d", "e", "d", " ", "M", "o", "d", "u", "l", "e", ":", " ">>)
         [] fmt = L(<<"i", "t">>) -> BytesAt(file, 0, 4) = L(<<"I", "M", "P", "M">>)
         [] fmt = L(<<"m", "o", "d">>) ->
                BytesAt(file, 1080, 1084) \in {L(<<"M", ".", "K", ".">>), L(<<"M", "!", "K", ".">>), L(<<"M", "!", "K", "!">>), L(<<"F", "L", "T", "4">>), L(<<"6", "C", "H", "N">>), L(<<"8", "C", "H", "N">>)}
         [] fmt = L(<<"s", "3", "m">>) ->
                BytesAt(file, 28, 29) = <<26>> /\ BytesAt(file, 44, 48) = L(<<"S", "C", "R", "M">>)
         [] fmt = L(<<"m", "p", "t", "m">>) -> BytesAt(file, 0, 4) \in {L(<<"I", "M", "P", "M">>), L(<<"m", "p", "t", "m">>)}
         [] fmt = L(<<"f", "t", "m">>) ->
                \/ Contains(BytesAt(file, 0, 100), L(<<"F", "a", "m", "i", "T", "r", "a", "c", "k", "e", "r">>))
                \/ Contains(BytesAt(file, 0, 100), L(<<"F", "T", "M">>))
         [] fmt = L(<<"n", "s", "f">>) ->
                \/ BytesAt(file, 0, 5) = L(<<"N", "E", "S", "M">>) \o <<26>>
                \/ BytesAt(file, 0, 4) = L(<<"N", "S", "F", "E">>)

\* a record a decoder built, not the stub
NonStub(m) == IsRecord(m) /\ m.tracker_tools # <<"Unknown">>

\* C11 as stated: each of the seven decoders returns a record only for a file
\* that carries its format's signature and None for every file that lacks it,
\* so the dispatcher never returns a non-stub record with format f for a file
\* without f's signature.
C11_Validated ==
    Returned =>
        /\ \A fmt \in {L(<<"x", "m">>), L(<<"i", "t">>), L(<<"m", "o", "d">>), L(<<"s", "3", "m">>), L(<<"m", "p", "t", "m">>), L(<<"f", "t", "m">>), L(<<"n", "s", "f">>)} :
              ~Carries(fmt, RetFile) => parsers(fmt, RetFile) = None
        /\ NonStub(ret.value) => Carries(ret.value.format, RetFile)

\* C11 amended: the XM, IT, S3M, MPTM, FTM and NSF decoders return a record
\* only for a file that carries their format's signature and None for every
\* file that lacks it; parse_mod_header validates no signature and returns a
\* record for every readable file of 953 bytes or more, whatever its bytes at
\* 1080..1083.  So the dispatcher never returns a non-stub record with a
\* format f other than mod for a file without f's signature, while a file
\* named .mod in which no signature is detected gets a mod record from its
\* length alone.
C11_ValidatedExceptMod ==
    Returned =>
        /\ \A fmt \in {L(<<"x", "m">>), L(<<"i", "t">>), L(<<"s", "3", "m">>), L(<<"m", "p", "t", "m">>), L(<<"f", "t", "m">>), L(<<"n", "s", "f">>)} :
              ~Carries(fmt, RetFile) => parsers(fmt, RetFile) = None
        /\ (CanOpen(RetFile) /\ RetFile.len >= 953) =>
              /\ IsRecord(parsers(L(<<"m", "o", "d">>), RetFile))
              /\ parsers(L(<<"m", "o", "d">>), RetFile).format = L(<<"m", "o", "d">>)
        /\ (NonStub(ret.value) /\ ret.value.format # L(<<"m", "o", "d">>)) =>
              Carries(ret.value.format, RetFile)
        /\ (/\ ext = L(<<"m", "o", "d">>)
            /\ detected_format = PyNone
            /\ CanOpen(RetFile)
            /\ RetFile.len >= 953) =>
              NonStub(ret.value) /\ ret.value.format = L(<<"m", "o", "d">>)

\* a file of zero bytes only, named .mod, came back as a ProTracker record
C11_Witness ==
    /\ Returned
    /\ CanOpen(RetFile)
    /\ RetFile.len = 2000
    /\ \A i \in 0..1083 : ByteAt(RetFile, i) = 0
    /\ ret.value.format = L(<<"m", "o", "d">>)
    /\ ret.value.tracker_tools = <<"ProTracker">>

\* the number of header bytes each decoder asks for
HeaderSize ==
    [fn \in DECODERS |->
        CASE fn = "parse_xm_header" -> 80
          [] fn = "parse_it_header" -> 192
          [] fn = "parse_mod_header" -> 1084
          [] fn = "parse_s3m_header" -> 96
          [] fn = "parse_mptm_header" -> 192
          [] fn = "parse_ftm_header" -> 100
          [] fn = "parse_nsf_header" -> 128]

\* C12: a decoder whose file is shorter than the header it reads (XM 80 bytes,
\* IT 192, MOD 1084, S3M 96, MPTM 192, FTM 100, NSF 128) returns None; it
\* never returns a record built from a truncated header or from default
\* values.
C12_TruncatedRejected ==
    (ret.fn \in DECODERS /\ CanOpen(RetFile) /\ RetFile.len < HeaderSize[ret.fn]) =>
        ret.value = None

BaseKeys == {"format", "format_long", "source_format_version", "tracker_tools"}

\* the keys of the record each decoder builds
RecordKeys(fmt) ==
    BaseKeys \cup
    CASE fmt = L(<<"x", "m">>) -> {"module_name", "channels", "patterns", "instruments", "song_length",
                          "default_tempo", "default_bpm", "linear_frequency"}
      [] fmt = L(<<"i", "t">>) -> {"song_name", "channels", "patterns", "instruments", "samples",
                          "orders", "initial_speed", "initial_tempo", "global_volume"}
      [] fmt = L(<<"m", "o", "d">>) -> {"song_name", "channels", "patterns", "samples", "song_length",
                           "format_tag"}
      [] fmt = L(<<"s", "3", "m">>) -> {"song_name", "channels", "patterns", "instruments", "orders",
                           "initial_speed", "initial_tempo", "global_volume"}
      [] fmt = L(<<"m", "p", "t", "m">>) -> {"song_name", "channels", "patterns", "instruments", "samples",
                            "orders", "initial_speed", "initial_tempo", "global_volume"}
      [] fmt = L(<<"f", "t", "m">>) -> {}
      [] fmt = L(<<"n", "s", "f">>) -> {"song_name", "artist", "copyright", "total_songs", "starting_song"}

\* the keys whose value is a str (or None), and those holding a name read
\* from the file
StrKeys ==
    {"format", "source_format_version", "song_name", "module_name", "artist", "copyright",
     "format_tag", "_note"}
NameKeys == {"song_name", "module_name", "artist", "copyright"}
IntKeys ==
    {"channels", "patterns", "instruments", "samples", "orders", "song_length",
     "initial_speed", "initial_tempo", "global_volume", "default_tempo", "default_bpm",
     "total_songs", "starting_song"}

\* the value stored under key k is not None
NotNull(m, k) ==
    IF k \in StrKeys THEN m[k] # PyNone
    ELSE IF k \in IntKeys THEN m[k] \in 0..65535
    ELSE IF k = "linear_frequency" THEN m[k] \in BOOLEAN
    ELSE IF k = "tracker_tools" THEN Len(m[k]) = 1
    ELSE m[k] \in STRING

\* the records in question once the dispatcher has returned: the record it
\* returned and the record of every decoder for the same file
RecordsAtReturn ==
    {ret.value} \cup {m \in {parsers(fmt, RetFile) : fmt \in ParserKeys} : IsRecord(m)}

DataModelKeys ==
    {"format", "format_long", "source_format_version", "tracker_tools", "song_name",
     "channels", "patterns", "instruments", "samples", "orders", "song_length",
     "initial_speed", "initial_tempo", "global_volume", "format_tag", "linear_frequency",
     "artist", "copyright", "total_songs", "starting_song", "_note"}

\* C14: every key of every record the dispatcher returns belongs to the data
\* model's field set, for all seven formats and the stub.
C14_KeysInDataModel ==
    Returned => DOMAIN ret.value \subseteq DataModelKeys

\* the long name that belongs to a format code
LongName(f) ==
    CASE f = L(<<"x", "m">>) -> "Extended Module"
      [] f = L(<<"i", "t">>) -> "Impulse Tracker"
      [] f = L(<<"m", "o", "d">>) -> "ProTracker Module"
      [] f = L(<<"s", "3", "m">>) -> "ScreamTracker 3"
      [] f = L(<<"m", "p", "t", "m">>) -> "OpenMPT Module"
      [] f = L(<<"f", "t", "m">>) -> "FamiTracker Module"
      [] f = L(<<"n", "s", "f">>) -> "NES Sound Format"
      [] OTHER -> IF f \in DOMAIN format_names THEN format_names[f] ELSE "Tracker Module"

\* C15: in every record the dispatcher returns, format_long is determined by
\* format alone, whether the record comes from a decoder or from the stub
\* table (xm Extended Module, it Impulse Tracker, mod ProTracker Module, s3m
\* ScreamTracker 3, mptm OpenMPT Module, ftm FamiTracker Module, nsf NES Sound
\* Format): format_long is the value of one function of format, and it is
\* the long name every decoder gives a record of that format.
C15_LongNameOfFormat ==
    Returned =>
        /\ ret.value.format_long = LongName(ret.value.format)
        /\ \A fmt \in ParserKeys :
              LET m == parsers(fmt, RetFile)
              IN  (IsRecord(m) /\ m.format = ret.value.format) =>
                      m.format_long = ret.value.format_long

\* a stub for an .xm file without signature was returned, with the long name
\* the XM decoder gives its records
C15_Witness ==
    /\ Returned
    /\ ~NonStub(ret.value)
    /\ ret.value.format = L(<<"x", "m">>)
    /\ ret.value.format_long = "Extended Module"
    /\ ret.value.format_long = xm_try(XmFile(336, L(<<"t", "u", "n", "e">>), 260, 1, 8)).format_long

\* the record the dispatcher returned is the one of the decoder the detector
\* pointed to
BySignature ==
    /\ detected_format \in ParserKeys
    /\ IsRecord(parsers(detected_format, RetFile))

\* C16: _note is present in the returned record exactly when the record was
\* produced by the signature-detected decoder and the detected format differs
\* from the file's extension; so format equals the lowercase extension
\* exactly when _note is absent, and the records of the extension fallback and
\* the stub never carry _note.
C16_NoteIffMismatch ==
    Returned =>
        /\ "_note" \in DOMAIN ret.value <=>
              (BySignature /\ detected_format # LowercaseExtension(ret.path))
        /\ ret.value.format = LowercaseExtension(ret.path) <=>
              "_note" \notin DOMAIN ret.value
        /\ ~BySignature => "_note" \notin DOMAIN ret.value

\* an XM file named .mod came back as xm, with the note
C16_Witness ==
    /\ Returned
    /\ LowercaseExtension(ret.path) = L(<<"m", "o", "d">>)
    /\ ret.value.format = L(<<"x", "m">>)
    /\ "_note" \in DOMAIN ret.value
    /\ ret.value["_note"] = L(<<"F", "i", "l", "e", " ", "h", "a", "s", " ", ".", "m", "o", "d", " ", "e", "x", "t", "e", "n", "s", "i", "o", "n", " ", "b", "u", "t", " ", "i", "s", " ", "a", "c", "t", "u", "a", "l", "l", "y", " ", "X", "M", " ", "f", "o", "r", "m", "a", "t">>)

\* the decoder the extension names returns a record for the file at hand
ByExtension ==
    /\ LowercaseExtension(tracker_path) \in ParserKeys
    /\ IsRecord(parsers(LowercaseExtension(tracker_path), fs[tracker_path]))

\* the signature-detected decoder returns a record for the file at hand
BySignatureNow ==
    /\ detected_format \in ParserKeys
    /\ IsRecord(parsers(detected_format, fs[tracker_path]))

\* C17: the dispatcher's three tiers run strictly in the order signature
\* decoder, extension decoder, stub: the extension-implied decoder is invoked
\* only after the signature tier produced no record (the detector returned
\* None or the detected decoder returned None), its record is returned when it
\* succeeds, and the stub is returned only after both tiers produced no
\* record.
C17_TierOrder ==
    [][/\ <<pc, pc'>> \in
             {<<"idle", "detect">>, <<"detect", "signature">>, <<"detect", "extension">>,
              <<"signature", "return">>, <<"signature", "extension">>,
              <<"extension", "return">>, <<"extension", "stub">>, <<"stub", "return">>,
              <<"return", "idle">>}
       /\ pc' = "signature" => detected_format' \in ParserKeys
       /\ pc' = "extension" =>
             \/ pc = "detect" /\ detected_format' = PyNone
             \/ pc = "signature" /\ metadata' = None /\ ~BySignatureNow
       /\ (pc = "signature" /\ pc' = "return") =>
             LET m == parsers(detected_format, fs[tracker_path])
             IN  /\ IsRecord(m)
                 /\ DOMAIN metadata' \ {"_note"} = DOMAIN m
                 /\ \A k \in DOMAIN m : metadata'[k] = m[k]
       /\ (pc = "extension" /\ ByExtension) =>
             /\ pc' = "return"
             /\ metadata' = parsers(LowercaseExtension(tracker_path), fs[tracker_path])
       /\ pc' = "stub" => ~ByExtension /\ ~BySignatureNow'
       /\ (pc = "stub" /\ pc' = "return") => ~NonStub(metadata')
       /\ pc = "return" => ret'.value = metadata /\ ret'.path = tracker_path
      ]_vars

\* the detector said ftm, the FTM decoder returned None, and the record of
\* the decoder named by the .mod extension was returned
C17_Witness ==
    /\ Returned
    /\ detected_format = L(<<"f", "t", "m">>)
    /\ parsers(L(<<"f", "t", "m">>), RetFile) = None
    /\ LowercaseExtension(ret.path) = L(<<"m", "o", "d">>)
    /\ ret.value = parsers(L(<<"m", "o", "d">>), RetFile)
    /\ ret.value.tracker_tools = <<"ProTracker">>

----------------------------------------------------------------------------
(* Config (scripts/utils/config.py) *)

\* bool(v) of a str or None
Truthy(v) == v # PyNone /\ v # <<>>

DEFAULTS ==
    [base_path |-> L(<<".", "/", "M", "u", "s", "i", "c">>),
     s3_bucket |-> L(<<"a", "l", "e", "x", "m", "b", "u", "g", "u", "a", "-", "m", "u", "s", "i", "c">>),
     s3_region |-> L(<<"u", "s", "-", "e", "a", "s", "t", "-", "1">>),
     cdn_base_url |-> L(<<"h", "t", "t", "p", "s", ":", "/", "/", "c", "d", "n", ".", "a", "l", "e", "x", "m", "b", "u", "g", "u", "a", ".", "m", "e">>),
     s3_base_url |-> PyNone,
     default_artist |-> L(<<"A", "l", "e", "x", ".", "I", "m", "m", "e", "r">>),
     default_composer |-> L(<<"A", "l", "e", "x", ".", "I", "m", "m", "e", "r">>),
     thumbnail_size |-> <<400, 400>>,
     thumbnail_format |-> L(<<"p", "n", "g">>),
     thumbnail_quality |-> 85]

\* d.update(u)
Update(d, u) == [k \in DOMAIN d \cup DOMAIN u |-> IF k \in DOMAIN u THEN u[k] ELSE d[k]]

\* a path that is not in the file system names a missing file
FileAt(path) == IF path \in DOMAIN fs THEN fs[path] ELSE Missing

\* Config._load_config_file: FileNotFoundError and yaml.YAMLError are caught,
\* any other exception leaves the constructor
load_config_file(config, config_file) ==
    LET file == FileAt(config_file)
    IN  CASE file.kind = "missing" -> config
          [] file.kind = "denied" -> Raise("PermissionError")
          [] file.kind = "yaml_error" -> config
          [] file.kind = "yaml_scalar" -> Raise("TypeError")
          [] file.kind = "yaml" -> Update(config, file.data)

env_mapping ==
    [MUSIC_BASE_PATH |-> "base_path",
     MUSIC_S3_BUCKET |-> "s3_bucket",
     MUSIC_S3_REGION |-> "s3_region",
     MUSIC_CDN_BASE |-> "cdn_base",
     CLOUDFRONT_DISTRIBUTION_ID |-> "cloudfront_distribution_id"]

\* os.getenv(env_var)
getenv(env_var) == IF env_var \in DOMAIN environ THEN environ[env_var] ELSE PyNone

\* Config._load_env_vars
load_env_vars(config) ==
    LET set == {env_var \in DOMAIN env_mapping : Truthy(getenv(env_var))}
    IN  Update(config,
               [config_key \in {env_mapping[env_var] : env_var \in set} |->
                   getenv(CHOOSE env_var \in set : env_mapping[env_var] = config_key)])

\* the working directory of the process
CWD == L(<<"/", "w", "o", "r", "k">>)

\* Path(p).resolve() of a path without symbolic links and without ..
resolve(p) ==
    IF p # <<>> /\ p[1] = 47 THEN p
    ELSE IF startswith(p, L(<<".", "/">>)) THEN CWD \o L(<<"/">>) \o SubSeq(p, 3, Len(p))
    ELSE CWD \o L(<<"/">>) \o p

\* Config.__init__: the instance, or the exception that leaves the constructor
Config(base_path, config_file, overrides) ==
    LET loaded == IF Truthy(config_file) THEN load_config_file(DEFAULTS, config_file)
                                         ELSE DEFAULTS
    IN  IF IsRaise(loaded) THEN loaded
        ELSE
        LET env == load_env_vars(loaded)
            cli == Update(IF Truthy(base_path) THEN [env EXCEPT !.base_path = base_path]
                                               ELSE env,
                          overrides)
            s3_base_url == IF "s3_base_url" \in DOMAIN cli THEN cli.s3_base_url ELSE PyNone
        IN  [base_path |-> resolve(cli.base_path),
             config |->
                IF ~Truthy(s3_base_url)
                THEN Update(cli, [s3_base_url |->
                        L(<<"h", "t", "t", "p", "s", ":", "/", "/">>) \o cli.s3_bucket \o L(<<".", "s", "3", ".", "a", "m", "a", "z", "o", "n", "a", "w", "s", ".", "c", "o", "m">>)])
                ELSE cli]

\* Path(candidate).exists()
exists(path) == FileAt(path).kind # "missing"

\* the config file load_config settles on
detect_config_file(config_file) ==
    IF Truthy(config_file) THEN config_file
    ELSE IF exists(L(<<".", "m", "u", "s", "i", "c", "_", "s", "y", "n", "c", ".", "y", "a", "m", "l">>)) THEN L(<<".", "m", "u", "s", "i", "c", "_", "s", "y", "n", "c", ".", "y", "a", "m", "l">>)
    ELSE IF exists(L(<<".", "m", "u", "s", "i", "c", "_", "s", "y", "n", "c", ".", "y", "m", "l">>)) THEN L(<<".", "m", "u", "s", "i", "c", "_", "s", "y", "n", "c", ".", "y", "m", "l">>)
    ELSE IF exists(L(<<"m", "u", "s", "i", "c", "_", "s", "y", "n", "c", ".", "y", "a", "m", "l">>)) THEN L(<<"m", "u", "s", "i", "c", "_", "s", "y", "n", "c", ".", "y", "a", "m", "l">>)
    ELSE config_file

\* load_config
load_config(base_path, config_file, kwargs) ==
    Config(base_path, detect_config_file(config_file), kwargs)

----------------------------------------------------------------------------
(* Config: inputs, state and calls *)

Yaml(data) == [kind |-> "yaml", data |-> data]

\* what the config file named on the command line can hold
ConfigFiles ==
    {Missing, Denied, [kind |-> "yaml_error"], [kind |-> "yaml_scalar"], Yaml(<<>>),
     Yaml([s3_bucket |-> L(<<"f", "i", "l", "e", "-", "b", "u", "c", "k", "e", "t">>)]),
     Yaml([s3_bucket |-> L(<<"f", "i", "l", "e", "-", "b", "u", "c", "k", "e", "t">>), s3_region |-> L(<<"e", "u", "-", "w", "e", "s", "t", "-", "1">>),
           base_path |-> L(<<"/", "s", "r", "v", "/", "m", "u", "s", "i", "c">>)]),
     Yaml([s3_base_url |-> L(<<"h", "t", "t", "p", "s", ":", "/", "/", "s", "3", ".", "e", "x", "a", "m", "p", "l", "e", "/">>), default_artist |-> L(<<"S", "o", "m", "e", "o", "n", "e">>)])}

\* what the auto-detected config file can hold
DetectedFiles == {Missing, Yaml([s3_region |-> L(<<"e", "u", "-", "n", "o", "r", "t", "h", "-", "1">>)])}

Environs ==
    {<<>>,
     [MUSIC_S3_BUCKET |-> L(<<"e", "n", "v", "-", "b", "u", "c", "k", "e", "t">>)],
     [MUSIC_S3_BUCKET |-> <<>>, MUSIC_S3_REGION |-> L(<<"a", "p", "-", "s", "o", "u", "t", "h", "-", "1">>)],
     [MUSIC_S3_BUCKET |-> L(<<"e", "n", "v", "-", "b", "u", "c", "k", "e", "t">>), MUSIC_S3_REGION |-> L(<<"a", "p", "-", "s", "o", "u", "t", "h", "-", "1">>),
      MUSIC_BASE_PATH |-> L(<<"e", "n", "v", "/", "m", "u", "s", "i", "c">>)],
     [MUSIC_CDN_BASE |-> L(<<"h", "t", "t", "p", "s", ":", "/", "/", "c", "d", "n", ".", "e", "x", "a", "m", "p", "l", "e">>), CLOUDFRONT_DISTRIBUTION_ID |-> L(<<"E", "1", "2", "3">>)]}

BasePaths == {PyNone, L(<<".", "/", "M", "u", "s", "i", "c">>), L(<<"/", "c", "l", "i", "/", "m", "u", "s", "i", "c">>)}
ConfigFileArgs == {PyNone, L(<<"c", "o", "n", "f", ".", "y", "a", "m", "l">>), L(<<"n", "o", "w", "h", "e", "r", "e", ".", "y", "a", "m", "l">>)}
Overrides == {<<>>, [s3_region |-> L(<<"c", "l", "i", "-", "r", "e", "g", "i", "o", "n">>)], [s3_bucket |-> L(<<"c", "l", "i", "-", "b", "u", "c", "k", "e", "t">>)]}

InitConfig ==
    /\ \E file \in ConfigFiles, detected \in DetectedFiles :
          fs = (L(<<"c", "o", "n", "f", ".", "y", "a", "m", "l">>) :> file) @@ (L(<<"m", "u", "s", "i", "c", "_", "s", "y", "n", "c", ".", "y", "a", "m", "l">>) :> detected)
    /\ environ \in Environs
    /\ handles = {}
    /\ frame = NoFrame
    /\ s3 = <<>>
    /\ upload_cache = NotLoaded
    /\ pc = "idle"
    /\ tracker_path = <<>>
    /\ ext = <<>>
    /\ detected_format = PyNone
    /\ metadata = None
    /\ ret = NoReturn
    /\ first = [path |-> <<>>, file |-> Missing, calls |-> 0, between |-> FALSE,
                value |-> None]

\* Config(base_path=..., config_file=..., **overrides)
NewConfig(base_path, config_file, overrides) ==
    /\ ret' = [fn |-> "Config", path |-> config_file, base_path |-> base_path,
               overrides |-> overrides,
               value |-> Config(base_path, config_file, overrides)]
    /\ UNCHANGED <<fs, pc, tracker_path, ext, detected_format, metadata, first, environ, handles, frame, s3, upload_cache>>

\* load_config(base_path=..., config_file=..., **kwargs)
LoadConfig(base_path, config_file, kwargs) ==
    /\ ret' = [fn |-> "load_config", path |-> detect_config_file(config_file),
               base_path |-> base_path, overrides |-> kwargs,
               value |-> load_config(base_path, config_file, kwargs)]
    /\ UNCHANGED <<fs, pc, tracker_path, ext, detected_format, metadata, first, environ, handles, frame, s3, upload_cache>>

NextConfig ==
    \/ \E b \in BasePaths, c \in ConfigFileArgs, o \in Overrides : NewConfig(b, c, o)
    \/ \E b \in BasePaths, c \in ConfigFileArgs, o \in Overrides : LoadConfig(b, c, o)

SpecConfig == InitConfig /\ [][NextConfig]_vars

\* what the config file of the last call set: the mapping of a file that
\* exists and parses as one, nothing otherwise
FileSettings ==
    IF Truthy(ret.path) /\ FileAt(ret.path).kind = "yaml" THEN FileAt(ret.path).data ELSE <<>>

\* what the environment sets for a key
EnvSetting(key) ==
    CASE key = "base_path" -> getenv("MUSIC_BASE_PATH")
      [] key = "s3_bucket" -> getenv("MUSIC_S3_BUCKET")
      [] key = "s3_region" -> getenv("MUSIC_S3_REGION")

\* C18: Config resolves each setting with the precedence CLI arguments >
\* config file > environment variables > defaults: a key set both in the YAML
\* config file and through its environment variable (s3_bucket and
\* MUSIC_S3_BUCKET) and not on the command line has the config file's value.
C18_FileOverEnvironment ==
    (ret.fn \in {"Config", "load_config"} /\ ~IsRaise(ret.value)) =>
        \A key \in {"base_path", "s3_bucket", "s3_region"} :
            ret.value.config[key] =
                IF key = "base_path" /\ Truthy(ret.base_path) THEN ret.base_path
                ELSE IF key \in DOMAIN ret.overrides THEN ret.overrides[key]
                ELSE IF key \in DOMAIN FileSettings THEN FileSettings[key]
                ELSE IF Truthy(EnvSetting(key)) THEN EnvSetting(key)
                ELSE DEFAULTS[key]

----------------------------------------------------------------------------
(* url_safe_name, normalize_stem (scripts/utils/file_utils.py) and           *)
(* sanitize_id (scripts/utils/id_utils.py), on ASCII text                    *)

\* the character classes \s, \d and \w of the re module
SPACE == {9, 10, 11, 12, 13, 28, 29, 30, 31, 32}
DIGIT == 48..57
WORD == (48..57) \cup (65..90) \cup (97..122) \cup {95}

\* the length of the longest prefix of s made of characters of class C
Lead(s, C) ==
    LET ok == {n \in 0..Len(s) : \A i \in 1..n : s[i] \in C}
    IN  CHOOSE n \in ok : \A m \in ok : m <= n

\* s[n:]
Drop(s, n) == SubSeq(s, n + 1, Len(s))

\* re.sub(r"[C]+", rep, s)
RECURSIVE sub_runs(_, _, _)
sub_runs(s, C, rep) ==
    IF s = <<>> THEN <<>>
    ELSE IF Lead(s, C) > 0 THEN rep \o sub_runs(Drop(s, Lead(s, C)), C, rep)
    ELSE <<s[1]>> \o sub_runs(Tail(s), C, rep)

\* re.sub(r"-{2,}", "-", s)
RECURSIVE sub_dashes(_)
sub_dashes(s) ==
    IF s = <<>> THEN <<>>
    ELSE IF Lead(s, {45}) >= 2 THEN <<45>> \o sub_dashes(Drop(s, Lead(s, {45})))
    ELSE <<s[1]>> \o sub_dashes(Tail(s))

\* re.sub(r"\s*&\s*", "-and-", s)
RECURSIVE sub_amp(_)
sub_amp(s) ==
    IF s = <<>> THEN <<>>
    ELSE LET n == Lead(s, SPACE)
         IN  IF n < Len(s) /\ s[n + 1] = 38
             THEN L(<<"-", "a", "n", "d", "-">>) \o sub_amp(Drop(Drop(s, n + 1), Lead(Drop(s, n + 1), SPACE)))
             ELSE <<s[1]>> \o sub_amp(Tail(s))

\* s.strip("-")
strip_dashes(s) ==
    LET keep == {i \in 1..Len(s) : s[i] # 45}
    IN  IF keep = {} THEN <<>>
        ELSE SubSeq(s, CHOOSE i \in keep : \A j \in keep : i <= j,
                       CHOOSE i \in keep : \A j \in keep : j <= i)

\* the index of the last "." of s (0 when there is none)
rfind_dot(s) ==
    LET dots == {i \in 1..Len(s) : s[i] = 46}
    IN  IF dots = {} THEN 0 ELSE CHOOSE i \in dots : \A j \in dots : j <= i

\* the steps of url_safe_name between the track number and the reassembly
clean_base(base_name) ==
    LET amp == sub_amp(base_name)
        slashes == sub_runs(amp, {47, 92}, <<45>>)
        special == SelectSeq(slashes, LAMBDA c : c \in WORD \cup SPACE \cup {46, 45})
        dots == SelectSeq(special, LAMBDA c : c # 46)
        spaces == sub_runs(dots, SPACE, <<45>>)
    IN  strip_dashes(sub_dashes(spaces))

url_safe_name(name) ==
    IF name = <<>> THEN L(<<"u", "n", "n", "a", "m", "e", "d">>)
    ELSE
    LET stripped == strip(name)
        dot == rfind_dot(stripped)
        is_extension == dot > 0 /\ Len(stripped) - dot <= 5
        split_base == IF is_extension THEN SubSeq(stripped, 1, dot - 1) ELSE stripped
        extension == IF is_extension THEN Drop(stripped, dot) ELSE <<>>
        digits == Lead(split_base, DIGIT)
        track_match == digits > 0 /\ digits < Len(split_base) /\ split_base[digits + 1] = 46
        track_number == IF track_match THEN SubSeq(split_base, 1, digits + 1) ELSE <<>>
        base_name == clean_base(Drop(split_base, Len(track_number)))
    IN  track_number \o (IF base_name = <<>> THEN L(<<"u", "n", "n", "a", "m", "e", "d">>) ELSE base_name)
            \o (IF extension # <<>> THEN <<46>> \o extension ELSE <<>>)

\* PurePath(filename).name: the last component that is neither empty nor "."
RECURSIVE path_name(_)
path_name(filename) ==
    LET slashes == {i \in 1..Len(filename) : filename[i] = 47}
    IN  IF slashes = {} THEN (IF filename = <<46>> THEN <<>> ELSE filename)
        ELSE LET i == CHOOSE i \in slashes : \A j \in slashes : j <= i
                 last == Drop(filename, i)
             IN  IF last \in {<<>>, <<46>>} THEN path_name(SubSeq(filename, 1, i - 1))
                 ELSE last

\* PurePath(filename).stem
path_stem(filename) ==
    LET name == path_name(filename)
    IN  SubSeq(name, 1, Len(name) - Len(suffix(name)))

\* re.sub(r"^\d+\.\s*", "", stem)
strip_track_number(stem) ==
    LET digits == Lead(stem, DIGIT)
    IN  IF digits > 0 /\ digits < Len(stem) /\ stem[digits + 1] = 46
        THEN Drop(Drop(stem, digits + 1), Lead(Drop(stem, digits + 1), SPACE))
        ELSE stem

normalize_stem(filename) ==
    LET stem == IF rfind_dot(filename) > 0 THEN path_stem(filename) ELSE filename
        lowered == lower(strip_track_number(stem))
        special == SelectSeq(lowered, LAMBDA c : c \in WORD \cup SPACE \cup {45})
    IN  strip_dashes(sub_dashes(sub_runs(special, SPACE, <<45>>)))

sanitize_id(text) == normalize_stem(text)

----------------------------------------------------------------------------
(* File and directory names: inputs, state and calls *)

MaxNameLen == 4

\* space, ampersand, parenthesis, dash, dot, slash, a digit, two letters
NameChars == {32, 38, 40, 45, 46, 47, 49, 65, 97}

\* names of the tests and docstrings of file_utils and id_utils
KnownNames ==
    {L(<<"T", "h", "e", " ", "D", "a", "y", " ", "T", "h", "e", "y", " ", "L", "a", "n", "d", "e", "d", ".", "m", "p", "3">>), L(<<"0", "1", ".", "T", "h", "e", " ", "D", "a", "y", " ", "T", "h", "e", "y", " ", "L", "a", "n", "d", "e", "d", ".", "m", "p", "3">>),
     L(<<"T", "h", "e", " ", "D", "a", "y", " ", "T", "h", "e", "y", " ", "L", "a", "n", "d", "e", "d", ".", "x", "m">>), L(<<"T", "r", "a", "c", "k", " ", " ", " ", "N", "a", "m", "e", ".", "m", "p", "3">>), L(<<"L", "o", "v", "e", ".", " ", "(", "D", "e", "m", "o", ")", ".", "m", "o", "d">>),
     L(<<"0", "9", ".", "T", "i", "m", "t", "r", "i", "s", ".", " ", "(", "L", "o", "o", "p", "e", "d", ")", ".", "m", "p", "3">>), L(<<"T", "r", "a", "c", "k", "/", "N", "a", "m", "e", ".", "m", "p", "3">>), L(<<"0", "1", ".", "T", "r", "a", "c", "k", " ", "N", "a", "m", "e", ".", "m", "p", "3">>),
     L(<<"0", "1", ".", "T", "r", "a", "c", "k", " ", "N", "a", "m", "e", ".", "i", "t">>), L(<<"T", "r", "a", "c", "k", " ", "N", "a", "m", "e">>), L(<<"0", "1", ".", "T", "r", "a", "c", "k", " ", "N", "a", "m", "e">>), L(<<"Q", "u", "e", " ", "S", "e", "r", "a", ",", " ", "S", "e", "r", "a", ".", ".", "m", "p", "3">>),
     L(<<"G", "o", "d", "o", "m", " ", "&", " ", "S", "o", "d", "o", "r", "r", "a", "h">>), L(<<"G", "o", "d", "o", "m", " ", "&", " ", "S", "o", "d", "o", "r", "r", "a", "h", ".", "m", "p", "3">>), L(<<"T", "r", "a", "c", "k", " ", "[", "B", "o", "n", "u", "s", "]", ".", "m", "p", "3">>),
     L(<<"8", "B", "i", "t", " ", "S", "e", "d", "u", "c", "t", "i", "o", "n">>), L(<<"L", "O", "U", "D", " ", "S", "O", "N", "G", ".", "m", "p", "3">>), L(<<"0", "2", ".", "S", "e", "c", "o", "n", "d", "-", "W", "a", "v", "e">>), L(<<"M", "r", ".", " ", "B", "i", "g">>),
     L(<<"T", "r", "a", "c", "k", "!", " ", "N", "a", "m", "e", "?", ".", "m", "p", "3">>), L(<<"a", "_", "b", ".", "f", "l", "a", "c">>), L(<<"n", "o", "t", "e", "s", ".", "b", "a", "c", "k", "u", "p">>)}

Names ==
    KnownNames \cup UNION {[1..n -> NameChars] : n \in 0..MaxNameLen}

\* the name the calls are made on is first.path
InitNames ==
    /\ fs = <<>>
    /\ environ = <<>>
    /\ handles = {}
    /\ frame = NoFrame
    /\ s3 = <<>>
    /\ upload_cache = NotLoaded
    /\ pc = "idle"
    /\ tracker_path = <<>>
    /\ ext = <<>>
    /\ detected_format = PyNone
    /\ metadata = None
    /\ ret = NoReturn
    /\ \E name \in Names :
          first = [path |-> name, file |-> Missing, calls |-> 0, between |-> FALSE,
                   value |-> None]

CallUrlSafeName(name) ==
    /\ ret' = [fn |-> "url_safe_name", path |-> name, value |-> url_safe_name(name)]
    /\ UNCHANGED <<fs, pc, tracker_path, ext, detected_format, metadata, first, environ, handles, frame, s3, upload_cache>>

CallNormalizeStem(filename) ==
    /\ ret' = [fn |-> "normalize_stem", path |-> filename,
               value |-> normalize_stem(filename)]
    /\ UNCHANGED <<fs, pc, tracker_path, ext, detected_format, metadata, first, environ, handles, frame, s3, upload_cache>>

CallSanitizeId(text) ==
    /\ ret' = [fn |-> "sanitize_id", path |-> text, value |-> sanitize_id(text)]
    /\ UNCHANGED <<fs, pc, tracker_path, ext, detected_format, metadata, first, environ, handles, frame, s3, upload_cache>>

NextNames ==
    \/ CallUrlSafeName(first.path)
    \/ CallNormalizeStem(first.path)
    \/ CallSanitizeId(first.path)

SpecNames == InitNames /\ [][NextNames]_vars

\* C19: for every input string url_safe_name returns a non-empty name
\* ("unnamed" for the empty string) that contains no whitespace and no
\* character other than letters, digits, underscore, dash and dot, with "&"
\* turned into "-and-", runs of dashes collapsed, and dots kept only after a
\* leading track number and before the extension.
C19_UrlSafe ==
    ret.fn = "url_safe_name" =>
        LET out == ret.value
            digits == {n \in 1..Len(out) : \A i \in 1..n : out[i] \in 48..57}
            dots == {i \in 1..Len(out) : out[i] = 46}
        IN  /\ out # <<>>
            /\ ret.path = <<>> => out = L(<<"u", "n", "n", "a", "m", "e", "d">>)
            /\ \A i \in 1..Len(out) :
                  out[i] \in (48..57) \cup (65..90) \cup (97..122) \cup {95, 45, 46}
            /\ ret.path = L(<<"A", "&", "a">>) => out = L(<<"A", "-", "a", "n", "d", "-", "a">>)
            /\ \A i \in 1..(Len(out) - 1) : ~(out[i] = 45 /\ out[i + 1] = 45)
            /\ \A i \in dots :
                  \/ i - 1 \in digits
                  \/ \A j \in dots : j <= i

\* C20: normalize_stem gives the same stem for a name regardless of its
\* extension and of a leading track number: for every base name b, track
\* prefix NN. and extensions e1, e2, normalize_stem(b) = normalize_stem(NN.b)
\* = normalize_stem(NN.b e1) = normalize_stem(b e2).
C20_StemIgnoresTrackAndExtension ==
    (/\ ret.fn = "normalize_stem"
     /\ ret.path # <<>>
     /\ \A i \in 1..Len(ret.path) : ret.path[i] \in (65..90) \cup (97..122) \cup {32}
     /\ ret.path[1] # 32 /\ ret.path[Len(ret.path)] # 32) =>
        \A nn \in {L(<<"0", "1", ".">>), L(<<"7", ".">>)}, e1 \in {L(<<".", "m", "p", "3">>), L(<<".", "x", "m">>)}, e2 \in {L(<<".", "m", "p", "3">>), L(<<".", "i", "t">>)} :
            /\ normalize_stem(nn \o ret.path) = ret.value
            /\ normalize_stem(nn \o ret.path \o e1) = ret.value
            /\ normalize_stem(ret.path \o e2) = ret.value

----------------------------------------------------------------------------
(* Version words and channel counts *)

\* the byte of the file of the last call at an offset
RetByte(offset) == ByteAt(RetFile, offset)

\* the decoders that format a 16-bit version word, and the offset of the word
VersionOffset ==
    [parse_xm_header |-> 38, parse_it_header |-> 40, parse_s3m_header |-> 40]

\* C21: for every decoder that formats a 16-bit version word (XM at offset
\* 38, IT and S3M at offset 40) the major component of source_format_version
\* is the word's high byte and the minor component is formatted from its low
\* byte (two decimal digits for XM, two hexadecimal digits for IT and S3M).
C21_HighByteMajor ==
    (ret.fn \in DOMAIN VersionOffset /\ IsRecord(ret.value)) =>
        LET low == RetByte(VersionOffset[ret.fn])
            high == RetByte(VersionOffset[ret.fn] + 1)
        IN  ret.value.source_format_version =
                Dec(high) \o <<46>>
                    \o ZFill2(IF ret.fn = "parse_xm_header" THEN Dec(low) ELSE Hex(low))

\* C21 (amended): XM and IT split the version word into its high byte
\* (major) and its low byte (minor, two decimal digits for XM, two
\* hexadecimal digits for IT); S3M splits it into its high four bits (major)
\* and its low twelve bits (minor, in hexadecimal, at least two digits).
C21_VersionSplit ==
    (ret.fn \in DOMAIN VersionOffset /\ IsRecord(ret.value)) =>
        LET low == RetByte(VersionOffset[ret.fn])
            high == RetByte(VersionOffset[ret.fn] + 1)
        IN  ret.value.source_format_version =
                CASE ret.fn = "parse_xm_header" ->
                        Dec(high) \o <<46>> \o ZFill2(Dec(low))
                  [] ret.fn = "parse_it_header" ->
                        Dec(high) \o <<46>> \o ZFill2(Hex(low))
                  [] ret.fn = "parse_s3m_header" ->
                        Dec(high \div 16) \o <<46>> \o ZFill2(Hex((high % 16) * 256 + low))

\* parse_s3m_header has formatted the version word 0x1320 as "1.320"
C21_Witness ==
    /\ ret.fn = "parse_s3m_header"
    /\ IsRecord(ret.value)
    /\ RetByte(40) = 32 /\ RetByte(41) = 19
    /\ ret.value.source_format_version = L(<<"1", ".", "3", "2", "0">>)

\* the bytes of the MOD tag field of the file of the last call
RetTag == BytesAt(RetFile, 1080, 1084)

\* C22: parse_mod_header maps the 4-byte tag at offset 1080 to channels:
\* M.K., M!K! and FLT4 give 4, 6CHN gives 6, 8CHN gives 8, any other tag
\* ending in CHN whose first character is a decimal digit gives that digit,
\* and every other tag gives 4; so the five tags the detector accepts as MOD
\* (M.K., M!K., FLT4, 6CHN, 8CHN) give 4, 4, 4, 6, 8.
C22_ModChannels ==
    (ret.fn = "parse_mod_header" /\ IsRecord(ret.value)) =>
        /\ ret.value.channels =
              IF RetTag \in {L(<<"M", ".", "K", ".">>), L(<<"M", "!", "K", "!">>), L(<<"F", "L", "T", "4">>)} THEN 4
              ELSE IF RetTag = L(<<"6", "C", "H", "N">>) THEN 6
              ELSE IF RetTag = L(<<"8", "C", "H", "N">>) THEN 8
              ELSE IF Len(RetTag) = 4 /\ SubSeq(RetTag, 2, 4) = L(<<"C", "H", "N">>)
                      /\ RetTag[1] \in 48..57 THEN RetTag[1] - 48
              ELSE 4
        /\ RetTag \in MOD_TAGS =>
              ret.value.channels =
                  CASE RetTag = L(<<"M", ".", "K", ".">>) -> 4
                    [] RetTag = L(<<"M", "!", "K", ".">>) -> 4
                    [] RetTag = L(<<"F", "L", "T", "4">>) -> 4
                    [] RetTag = L(<<"6", "C", "H", "N">>) -> 6
                    [] RetTag = L(<<"8", "C", "H", "N">>) -> 8

\* parse_mod_header has read the digit of a 2CHN tag
C22_Witness ==
    /\ ret.fn = "parse_mod_header"
    /\ IsRecord(ret.value)
    /\ RetTag = L(<<"2", "C", "H", "N">>)
    /\ ret.value.channels = 2

\* the offsets of the channel-settings table that the file of the last call holds
RetWindow == {i \in 64..95 : i < RetFile.len}

\* C23: parse_s3m_header reports channels as the number of bytes among the
\* 32 channel-settings bytes at offsets 64..95 whose value is below 32 (0xFF
\* and every value from 32 up are not counted), a number within 0..32.
C23_S3mChannels ==
    (ret.fn = "parse_s3m_header" /\ IsRecord(ret.value)) =>
        /\ ret.value.channels = Cardinality({i \in RetWindow : RetByte(i) < 32})
        /\ ret.value.channels \in 0..32

\* parse_s3m_header has counted 29 channels in a table of 32 bytes that
\* holds the values 32, 128 and 255
C23_Witness ==
    /\ ret.fn = "parse_s3m_header"
    /\ IsRecord(ret.value)
    /\ {32, 128, 255} \subseteq {RetByte(i) : i \in RetWindow}
    /\ ret.value.channels = 29

\* C24: parse_mptm_header never reports 0 channels: channels is the number
\* of bytes of the 32-byte window at offsets 64..95 with a value in 0..127,
\* and 64 when that number is zero or the file ends before offset 96, so the
\* value is within 1..32 or is 64.
C24_MptmChannels ==
    (ret.fn = "parse_mptm_header" /\ IsRecord(ret.value)) =>
        LET counted == Cardinality({i \in 64..95 : RetByte(i) <= 127})
        IN  /\ ret.value.channels =
                  IF RetFile.len >= 96 /\ counted > 0 THEN counted ELSE 64
            /\ ret.value.channels \in (1..32) \cup {64}

\* parse_mptm_header has reported 64 channels for a table that holds 0xFF
\* only, and 2 channels for a table with two values below 128
C24_Witness ==
    /\ ret.fn = "parse_mptm_header"
    /\ IsRecord(ret.value)
    /\ RetFile.len >= 96
    /\ \/ ret.value.channels = 64 /\ \A i \in 64..95 : RetByte(i) = 255
       \/ ret.value.channels = 2 /\ RetByte(64) = 127 /\ RetByte(66) = 128

----------------------------------------------------------------------------
(* One dispatcher call followed statement by statement through the        *)
(* function it calls: the call, path.open("rb"), the body of the with     *)
(* block, the exit of the with block, the except clause and the return    *)

\* the body of the try block of a function, entered with the file open
try_body(fn, file) ==
    CASE fn = DETECTOR -> detect_try(file)
      [] fn = "parse_xm_header" -> xm_try(file)
      [] fn = "parse_it_header" -> it_try(file)
      [] fn = "parse_mod_header" -> mod_try(file)
      [] fn = "parse_s3m_header" -> s3m_try(file)
      [] fn = "parse_mptm_header" -> mptm_try(file)
      [] fn = "parse_ftm_header" -> ftm_try(file)
      [] fn = "parse_nsf_header" -> nsf_try(file)

\* the file object of the function being called
FileObject == [fn |-> frame.fn, path |-> frame.path]

\* the files every file name is tried with, the second file of the directory
\* besides
InitHandles ==
    /\ \E name \in AllNames, file \in CoreFiles :
          /\ fs = (name :> file) @@ (OtherName :> OtherFile)
          /\ first = [path |-> name, file |-> file, calls |-> 0,
                       between |-> FALSE, value |-> None]
    /\ pc = "idle"
    /\ tracker_path = <<>>
    /\ ext = <<>>
    /\ detected_format = PyNone
    /\ metadata = None
    /\ ret = NoReturn
    /\ environ = <<>>
    /\ handles = {}
    /\ frame = NoFrame
    /\ s3 = <<>>
    /\ upload_cache = NotLoaded

\* the dispatcher calls the detector, the detected decoder or the decoder of
\* the extension
Enter ==
    /\ pc \in {"detect", "signature", "extension"}
    /\ frame = NoFrame
    /\ pc = "extension" => ext \in ParserKeys
    /\ frame' = [fn |-> CASE pc = "detect" -> DETECTOR
                          [] pc = "signature" -> DecoderNames[detected_format]
                          [] pc = "extension" -> DecoderNames[ext],
                 path |-> tracker_path, at |-> "open", result |-> None]
    /\ UNCHANGED <<fs, pc, tracker_path, ext, detected_format, metadata, ret, first, environ, handles, s3, upload_cache>>

\* path.open("rb"): a file object, or OSError raised inside the try block
OpenFile ==
    /\ frame.fn # "none"
    /\ frame.at = "open"
    /\ IF CanOpen(fs[frame.path])
       THEN /\ handles' = handles \cup {FileObject}
            /\ frame' = [frame EXCEPT !.at = "body"]
       ELSE /\ handles' = handles
            /\ frame' = [frame EXCEPT !.at = "except", !.result = Raise("OSError")]
    /\ fs' = [fs EXCEPT ![frame.path] = OpenRB(@)]
    /\ UNCHANGED <<pc, tracker_path, ext, detected_format, metadata, ret, first, environ, s3, upload_cache>>

\* the statements of the with block, up to a return or an exception
ReadHeader ==
    /\ frame.fn # "none"
    /\ frame.at = "body"
    /\ frame' = [frame EXCEPT !.at = "exit", !.result = try_body(frame.fn, fs[frame.path])]
    /\ UNCHANGED <<fs, pc, tracker_path, ext, detected_format, metadata, ret, first, environ, handles, s3, upload_cache>>

\* (ExitWith for a file closed by a call of f.close() at the end of the
\* block, which an exception skips)
ExitWithoutFinally ==
    /\ frame.fn # "none"
    /\ frame.at = "exit"
    /\ handles' = IF IsRaise(frame.result) THEN handles ELSE handles \ {FileObject}
    /\ frame' = [frame EXCEPT !.at = IF IsRaise(frame.result) THEN "except" ELSE "return"]
    /\ UNCHANGED <<fs, pc, tracker_path, ext, detected_format, metadata, ret, first, environ, s3, upload_cache>>

\* leaving the with block closes the file, on a return and on an exception
ExitWith ==
    /\ frame.fn # "none"
    /\ frame.at = "exit"
    /\ handles' = handles \ {FileObject}
    /\ frame' = [frame EXCEPT !.at = IF IsRaise(frame.result) THEN "except" ELSE "return"]
    /\ UNCHANGED <<fs, pc, tracker_path, ext, detected_format, metadata, ret, first, environ, s3, upload_cache>>

\* except Exception: return None (the detector: pass, then return None)
ExceptHandler ==
    /\ frame.fn # "none"
    /\ frame.at = "except"
    /\ frame' = [frame EXCEPT !.at = "return",
                              !.result = IF frame.fn = DETECTOR
                                         THEN ExceptPass(frame.result)
                                         ELSE Except(frame.result)]
    /\ UNCHANGED <<fs, pc, tracker_path, ext, detected_format, metadata, ret, first, environ, handles, s3, upload_cache>>

\* the function returns and the dispatcher goes on with its result
Resume ==
    /\ frame.fn # "none"
    /\ frame.at = "return"
    /\ frame' = NoFrame
    /\ CASE pc = "detect" ->
              /\ detected_format' = frame.result.value
              /\ pc' = IF detected_format' # PyNone /\ detected_format' \in ParserKeys
                       THEN "signature" ELSE "extension"
              /\ UNCHANGED metadata
         [] pc = "signature" ->
              /\ IF IsRecord(frame.result)
                 THEN metadata' = WithNote(frame.result, ext, detected_format) /\ pc' = "return"
                 ELSE metadata' = frame.result /\ pc' = "extension"
              /\ UNCHANGED detected_format
         [] pc = "extension" ->
              /\ metadata' = frame.result
              /\ pc' = IF IsRecord(frame.result) THEN "return" ELSE "stub"
              /\ UNCHANGED detected_format
    /\ UNCHANGED <<fs, tracker_path, ext, ret, first, environ, handles, s3, upload_cache>>

\* the extension names no decoder
SkipExtension ==
    /\ pc = "extension"
    /\ ext \notin ParserKeys
    /\ pc' = "stub"
    /\ UNCHANGED <<fs, tracker_path, ext, detected_format, metadata, ret, first, environ, handles, frame, s3, upload_cache>>

NextHandles ==
    \/ \E p \in DOMAIN fs : Call(p)
    \/ Enter
    \/ OpenFile
    \/ ReadHeader
    \/ ExitWith
    \/ ExceptHandler
    \/ Resume
    \/ SkipExtension
    \/ ReturnStub
    \/ Return

SpecHandles == InitHandles /\ [][NextHandles]_vars

\* the function being called is at one of these statements
FrameAt(ats) == frame.fn # "none" /\ frame.at \in ats

\* C25: every file handle opened by the detector or a decoder is closed
\* before that function returns, on every exit path (record returned, None
\* returned on a signature mismatch, exception caught); during one
\* dispatcher call at most one handle is open at any moment and none is open
\* when the dispatcher returns.
C25_HandlesClosed ==
    /\ Cardinality(handles) <= 1
    /\ FrameAt({"body", "exit"}) => handles = {FileObject}
    /\ FrameAt({"except", "return"}) => handles = {}
    /\ frame = NoFrame => handles = {}
    /\ Returned => handles = {}

\* a decoder has left its with block on an exception raised while the file
\* was open, and the file is closed when the except clause is entered
C25_Witness ==
    /\ FrameAt({"except"})
    /\ frame.result = Raise("struct.error")
    /\ handles = {}

----------------------------------------------------------------------------
(* Two files with the same extension and the same first 1084 bytes *)

\* the number of bytes the detector reads, the largest read of the module
PrefixLen == 1084

\* a name with another stem and the same suffix
TwinName(name) == L(<<"t", "w", "i", "n">>) \o suffix(name)

\* files that agree with `file` on the first PrefixLen bytes: the file cut
\* after them, and the file with other bytes from there on
Twins(file) ==
    IF file.kind # "file" \/ file.len < PrefixLen THEN {file}
    ELSE {[file EXCEPT !.len = PrefixLen],
          Put([file EXCEPT !.len = Max(@, PrefixLen + 100)], PrefixLen, FTM),
          Put([file EXCEPT !.len = Max(@, PrefixLen + 100)], PrefixLen,
              SIG_XM \o Rep(16, 255))}

InitTwins ==
    /\ \E inp \in Inputs : \E twin \in Twins(inp.file) :
          /\ fs = (inp.name :> inp.file) @@ (TwinName(inp.name) :> twin)
          /\ first = [path |-> inp.name, file |-> inp.file, calls |-> 0,
                       between |-> FALSE, value |-> None]
    /\ pc = "idle"
    /\ tracker_path = <<>>
    /\ ext = <<>>
    /\ detected_format = PyNone
    /\ metadata = None
    /\ ret = NoReturn
    /\ environ = <<>>
    /\ handles = {}
    /\ frame = NoFrame
    /\ s3 = <<>>
    /\ upload_cache = NotLoaded

SpecTwins == InitTwins /\ [][Next]_vars

\* the dispatcher has returned for the twin after it returned for the file
TwinReturned ==
    /\ Returned
    /\ ret.path = TwinName(first.path)
    /\ first.calls > 0

\* C26: the dispatcher's result depends only on the file's extension and on
\* its first 1084 bytes: two files with the same extension whose contents
\* agree on the first 1084 bytes, whatever follows them, yield equal records.
C26_PrefixOnly ==
    TwinReturned => ret.value = first.value

\* the dispatcher has returned a decoded record for a file and for a twin of
\* it whose bytes from offset 1084 on are different
C26_Witness ==
    /\ TwinReturned
    /\ NonStub(ret.value)
    /\ RetFile.len > PrefixLen
    /\ first.file.len > PrefixLen
    /\ ByteAt(RetFile, PrefixLen) # ByteAt(first.file, PrefixLen)

----------------------------------------------------------------------------
(* Detector and decoders *)

\* C27: the detector and the decoders agree: whenever
\* detect_format_by_signature returns a format for a file at least as long
\* as the header that format's decoder reads, the decoder accepts the file
\* and returns a record, so the dispatcher returns the record of the detected
\* format and never falls back to the extension or to the stub.
C27_DetectorDecoderAgree ==
    (/\ Returned
     /\ detected_format \in ParserKeys
     /\ RetFile.len >= HeaderSize[DecoderNames[detected_format]]) =>
        /\ IsRecord(parsers(detected_format, RetFile))
        /\ ret.value.format = detected_format

----------------------------------------------------------------------------
(* sanitize_directory (scripts/utils/file_utils.py)                         *)
(*                                                                          *)
(* A path is the sequence of its parts; the directory tree is fs, a         *)
(* function from the paths that exist to what is there.  frame holds the    *)
(* locals of the call, and renames, the list of the renames done so far.    *)

IGNORE_FILES ==
    {L(<<".", "D", "S", "_", "S", "t", "o", "r", "e">>), L(<<"T", "h", "u", "m", "b", "s", ".", "d", "b">>), L(<<".", "g", "i", "t", "k", "e", "e", "p">>), L(<<".", "g", "i", "t", "i", "g", "n", "o", "r", "e">>), L(<<"d", "e", "s", "k", "t", "o", "p", ".", "i", "n", "i">>),
     L(<<"F", "o", "l", "d", "e", "r", ".", "j", "p", "g">>), L(<<"A", "l", "b", "u", "m", "A", "r", "t", "S", "m", "a", "l", "l", ".", "j", "p", "g">>)}

Dir == [kind |-> "dir"]

\* len(path.parts) is Len(path); a is an ancestor directory of p
IsAncestor(a, p) == Len(a) < Len(p) /\ SubSeq(p, 1, Len(a)) = a

\* path.name, path.with_name(name), Path.stem of a name without slashes
name_of(path) == path[Len(path)]
with_name(path, name) == SubSeq(path, 1, Len(path) - 1) \o <<name>>
stem(name) == SubSeq(name, 1, Len(name) - Len(suffix(name)))

\* root.rglob("*"): every path below root
rglob(tree, root) == {p \in DOMAIN tree : IsAncestor(root, p)}

\* (sorted_by_depth without reverse=True: the shallowest paths first)
sorted_shallowest_first(paths) ==
    {s \in [1..Cardinality(paths) -> paths] :
        /\ \A i, j \in DOMAIN s : i # j => s[i] # s[j]
        /\ \A i, j \in DOMAIN s : i < j => Len(s[i]) <= Len(s[j])}

\* sorted(..., key=lambda x: len(x.parts), reverse=True): the lists the sort
\* can return, rglob yielding the paths of one depth in any order
sorted_by_depth(paths) ==
    {s \in [1..Cardinality(paths) -> paths] :
        /\ \A i, j \in DOMAIN s : i # j => s[i] # s[j]
        /\ \A i, j \in DOMAIN s : i < j => Len(s[i]) >= Len(s[j])}

\* (free_path taking the URL-safe name whether it exists or not)
taken_path(tree, new_path, base, sfx, counter) == new_path

\* while new_path.exists(): new_path = new_path.with_name(f"{base}-{counter}{suffix}")
RECURSIVE free_path(_, _, _, _, _)
free_path(tree, new_path, base, sfx, counter) ==
    IF new_path \notin DOMAIN tree THEN new_path
    ELSE free_path(tree, with_name(new_path, base \o <<45>> \o Dec(counter) \o sfx),
                   base, sfx, counter + 1)

\* where path.rename(new_path) puts a path of the tree
Moved(path, new_path, p) ==
    IF p = path \/ IsAncestor(path, p)
    THEN new_path \o SubSeq(p, Len(path) + 1, Len(p))
    ELSE p

\* the tree after path.rename(new_path): the entry and all below it move,
\* and replace what was at new_path
rename(tree, path, new_path) ==
    LET moved == {p \in DOMAIN tree : p = path \/ IsAncestor(path, p)}
        kept == {p \in DOMAIN tree \ moved : p # new_path /\ ~IsAncestor(new_path, p)}
    IN  [q \in kept \cup {Moved(path, new_path, p) : p \in moved} |->
            IF q \in kept THEN tree[q]
            ELSE tree[CHOOSE p \in moved : Moved(path, new_path, p) = q]]

----------------------------------------------------------------------------
(* sanitize_directory: trees, state and steps *)

ROOT == <<L(<<"M", "u", "s", "i", "c">>)>>

\* the entries a tree is made of: names that are URL-safe already, names
\* with spaces that sanitize to them, a hidden file and an ignored file, in
\* the root, in two directories and in a directory of a directory
Candidates ==
    LET d1 == ROOT \o <<L(<<"d", " ", "e">>)>>
        d2 == ROOT \o <<L(<<"d", "-", "e">>)>>
        d3 == d1 \o <<L(<<"s", " ", "t">>)>>
    IN  [p \in {d1, d2, d3} |-> Dir]
        @@ [p \in {ROOT \o <<L(<<"a", " ", "b">>)>>, ROOT \o <<L(<<"a", " ", " ", "b">>)>>, ROOT \o <<L(<<"a", "-", "b">>)>>,
                   ROOT \o <<L(<<"a", "-", "b", "-", "1">>)>>, ROOT \o <<L(<<"a", " ", "b", ".", "m", "p", "3">>)>>, ROOT \o <<L(<<"a", "-", "b", ".", "m", "p", "3">>)>>,
                   ROOT \o <<L(<<".", "h", " ", "i">>)>>, ROOT \o <<L(<<"T", "h", "u", "m", "b", "s", ".", "d", "b">>)>>,
                   d1 \o <<L(<<"a", " ", "b">>)>>, d1 \o <<L(<<"a", "-", "b">>)>>, d2 \o <<L(<<"a", " ", "b">>)>>,
                   d3 \o <<L(<<"x", " ", "y">>)>>} |-> Blank(0, 0)]

MaxEntries == 4

\* the trees of at most MaxEntries entries below the root, and no tree at all
Trees ==
    {<<>>}
    \cup {(ROOT :> Dir) @@ [p \in S |-> Candidates[p]] :
            S \in {T \in SUBSET DOMAIN Candidates :
                     /\ Cardinality(T) <= MaxEntries
                     /\ \A p \in T : Len(p) > 2 => SubSeq(p, 1, Len(p) - 1) \in T}}

InitSanitize ==
    /\ fs \in Trees
    /\ first = [path |-> ROOT, file |-> fs, calls |-> 0, between |-> FALSE,
                 value |-> None]
    /\ pc = "idle"
    /\ tracker_path = <<>>
    /\ ext = <<>>
    /\ detected_format = PyNone
    /\ metadata = None
    /\ ret = NoReturn
    /\ environ = <<>>
    /\ handles = {}
    /\ frame = NoFrame
    /\ s3 = <<>>
    /\ upload_cache = NotLoaded

NoStats == [renamed |-> 0, skipped |-> 0, errors |-> 0]

\* sanitize_directory(root, dry_run) up to the for loop; it returns at once
\* when root does not exist.  first.file keeps the tree the call started on.
CallSanitizeDirectory(root, dry_run) ==
    /\ frame = NoFrame
    /\ first.calls < MaxCalls
    /\ IF root \notin DOMAIN fs
       THEN /\ ret' = [fn |-> "sanitize_directory", path |-> root, value |-> NoStats]
            /\ first' = [first EXCEPT !.calls = @ + 1, !.file = fs]
            /\ UNCHANGED frame
       ELSE /\ \E all_paths \in sorted_by_depth(rglob(fs, root)) :
                  frame' = [fn |-> "sanitize_directory", root |-> root,
                            dry_run |-> dry_run, all_paths |-> all_paths, i |-> 1,
                            stats |-> NoStats, renames |-> <<>>]
            /\ first' = [first EXCEPT !.file = fs]
            /\ UNCHANGED ret
    /\ UNCHANGED <<fs, pc, tracker_path, ext, detected_format, metadata, environ, handles, s3, upload_cache>>

\* one pass of the for loop
Visit ==
    /\ frame.fn = "sanitize_directory"
    /\ frame.i <= Len(frame.all_paths)
    /\ LET path == frame.all_paths[frame.i]
           safe_name == url_safe_name(name_of(path))
           target == with_name(path, safe_name)
           new_path == free_path(fs, target, stem(safe_name), suffix(safe_name), 1)
           next == [frame EXCEPT !.i = @ + 1]
       IN  IF startswith(name_of(path), <<46>>) \/ name_of(path) \in IGNORE_FILES
           THEN frame' = next /\ UNCHANGED fs
           ELSE IF safe_name = name_of(path)
           THEN frame' = [next EXCEPT !.stats.skipped = @ + 1] /\ UNCHANGED fs
           ELSE IF frame.dry_run
           THEN frame' = [next EXCEPT !.stats.renamed = @ + 1] /\ UNCHANGED fs
           ELSE IF path \notin DOMAIN fs
           THEN frame' = [next EXCEPT !.stats.errors = @ + 1] /\ UNCHANGED fs
           ELSE /\ fs' = rename(fs, path, new_path)
                /\ frame' = [next EXCEPT !.stats.renamed = @ + 1,
                                         !.renames = Append(@, [old |-> path, new |-> new_path])]
    /\ UNCHANGED <<pc, tracker_path, ext, detected_format, metadata, ret, first, environ, handles, s3, upload_cache>>

\* return stats
ReturnStats ==
    /\ frame.fn = "sanitize_directory"
    /\ frame.i > Len(frame.all_paths)
    /\ ret' = [fn |-> "sanitize_directory", path |-> frame.root, value |-> frame.stats]
    /\ first' = [first EXCEPT !.calls = @ + 1]
    /\ frame' = NoFrame
    /\ UNCHANGED <<fs, pc, tracker_path, ext, detected_format, metadata, environ, handles, s3, upload_cache>>

NextSanitize ==
    \/ \E dry_run \in BOOLEAN : CallSanitizeDirectory(ROOT, dry_run)
    \/ Visit
    \/ ReturnStats

SpecSanitize == InitSanitize /\ [][NextSanitize]_vars

\* sanitize_directory is inside its for loop
Sanitizing == frame.fn = "sanitize_directory"

\* C28: sanitize_directory processes the paths it collected deepest-first:
\* every path is visited before any of its ancestor directories, so when a
\* path is renamed none of its ancestors has been renamed yet, and every
\* collected path still exists at its recorded location when it is visited.
C28_DeepestFirst ==
    Sanitizing =>
        /\ \A i, j \in DOMAIN frame.all_paths :
              i < j => ~IsAncestor(frame.all_paths[i], frame.all_paths[j])
        /\ \A a, b \in DOMAIN frame.renames :
              a < b => ~IsAncestor(frame.renames[a].old, frame.renames[b].old)
        /\ \A j \in frame.i..Len(frame.all_paths) : frame.all_paths[j] \in DOMAIN fs
        /\ frame.stats.errors = 0

\* a file of a directory was renamed, then the directory itself, and the
\* paths still to visit are where they were collected
C28_Witness ==
    /\ Sanitizing
    /\ Len(frame.renames) = 2
    /\ frame.renames[1] = [old |-> ROOT \o <<L(<<"d", " ", "e">>), L(<<"a", " ", "b">>)>>,
                           new |-> ROOT \o <<L(<<"d", " ", "e">>), L(<<"a", "-", "b">>)>>]
    /\ frame.renames[2] = [old |-> ROOT \o <<L(<<"d", " ", "e">>)>>, new |-> ROOT \o <<L(<<"d", "-", "e">>)>>]
    /\ ROOT \o <<L(<<"d", "-", "e">>), L(<<"a", "-", "b">>)>> \in DOMAIN fs
    /\ frame.i <= Len(frame.all_paths)

\* a pass of the for loop has renamed a path
RenameStep ==
    /\ Sanitizing
    /\ frame'.fn = "sanitize_directory"
    /\ Len(frame'.renames) = Len(frame.renames) + 1

\* the k-th name the collision loop tries for a path
Numbered(path, k) ==
    LET safe_name == url_safe_name(name_of(path))
    IN  with_name(path, stem(safe_name) \o <<45>> \o Dec(k) \o suffix(safe_name))

\* the entries of the tree the call started on that no rename has moved
Unmoved ==
    {p \in DOMAIN first.file :
        \A k \in DOMAIN frame.renames :
            p # frame.renames[k].old /\ ~IsAncestor(frame.renames[k].old, p)}

\* C29: sanitize_directory (not dry-run) never renames a path onto a name
\* that already exists: when the URL-safe target name is taken it tries
\* <stem>-1<suffix>, <stem>-2<suffix>, ... and renames onto the first name
\* that does not exist, so no entry that was there is overwritten and two
\* entries that sanitize to the same name both survive.
C29_NoOverwrite ==
    /\ [](/\ Cardinality(DOMAIN fs) = Cardinality(DOMAIN first.file)
          /\ Sanitizing => \A p \in Unmoved : p \in DOMAIN fs /\ fs[p] = first.file[p])
    /\ [][RenameStep =>
            LET r == frame'.renames[Len(frame'.renames)]
                target == with_name(r.old, url_safe_name(name_of(r.old)))
            IN  /\ r.new \notin DOMAIN fs
                /\ IF target \notin DOMAIN fs THEN r.new = target
                   ELSE \E k \in 1..Cardinality(DOMAIN fs) :
                           /\ r.new = Numbered(r.old, k)
                           /\ \A m \in 1..(k - 1) : Numbered(r.old, m) \in DOMAIN fs]_vars

\* two files that sanitize to a-b were renamed next to a-b and a-b-1, onto
\* a-b-2 and a-b-3, and all four are there
C29_Witness ==
    /\ Sanitizing
    /\ Len(frame.renames) = 2
    /\ {frame.renames[1].old, frame.renames[2].old} = {ROOT \o <<L(<<"a", " ", "b">>)>>, ROOT \o <<L(<<"a", " ", " ", "b">>)>>}
    /\ {frame.renames[1].new, frame.renames[2].new} = {ROOT \o <<L(<<"a", "-", "b", "-", "2">>)>>, ROOT \o <<L(<<"a", "-", "b", "-", "3">>)>>}
    /\ DOMAIN fs = {ROOT, ROOT \o <<L(<<"a", "-", "b">>)>>, ROOT \o <<L(<<"a", "-", "b", "-", "1">>)>>,
                    ROOT \o <<L(<<"a", "-", "b", "-", "2">>)>>, ROOT \o <<L(<<"a", "-", "b", "-", "3">>)>>}

----------------------------------------------------------------------------
(* scripts/utils/upload_utils.py: the upload cache and upload_file *)

\* the local file every call uploads, and the file get_upload_cache() loads
LOCAL_PATH == L(<<"M", "u", "s", "i", "c", "/", "a", ".", "m", "p", "3">>)
CACHE_FILE == L(<<"M", "u", "s", "i", "c", "/", ".", "u", "p", "l", "o", "a", "d", "_", "c", "a", "c", "h", "e", ".", "j", "s", "o", "n">>)

\* the S3 keys a call may name
Keys == {L(<<"a", "l", "b", "u", "m", "s", "/", "a", ".", "m", "p", "3">>), L(<<"a", "l", "b", "u", "m", "s", "/", "b", ".", "m", "p", "3">>)}

\* the contents a local file may hold
Contents == {L(<<"a">>), L(<<"b">>)}

\* a local file: its bytes, its st_mtime and whether this user may read it;
\* st_size is Len(data)
LocalFile(data, mtime, readable) ==
    [kind |-> "file", data |-> data, mtime |-> mtime, readable |-> readable]

\* the MD5 digests of the contents above, in hexadecimal
MD5 ==
    (L(<<"a">>) :> L(<<"0", "c", "c", "1", "7", "5", "b", "9", "c", "0", "f", "1", "b", "6", "a", "8", "3", "1", "c", "3", "9", "9", "e", "2", "6", "9", "7", "7", "2", "6", "6", "1">>))
    @@ (L(<<"b">>) :> L(<<"9", "2", "e", "b", "5", "f", "f", "e", "e", "6", "a", "e", "2", "f", "e", "c", "3", "a", "d", "7", "1", "c", "7", "7", "7", "5", "3", "1", "5", "7", "8", "f">>))

\* hashlib.md5(data).hexdigest()
hexdigest(data) == MD5[data]

\* calculate_file_md5(file_path): opening an unreadable file raises
calculate_file_md5(file) ==
    IF file.readable THEN hexdigest(file.data) ELSE Raise("PermissionError")

\* the characters an ETag is stripped of
QUOTES == {Ord("\"")}

\* s.strip(chars)
strip_chars(s, chars) ==
    IF \A i \in 1..Len(s) : s[i] \in chars THEN <<>>
    ELSE LET lo == CHOOSE i \in 1..Len(s) : s[i] \notin chars /\ \A j \in 1..(i - 1) : s[j] \in chars
             hi == CHOOSE i \in 1..Len(s) : s[i] \notin chars /\ \A j \in (i + 1)..Len(s) : s[j] \in chars
         IN  SubSeq(s, lo, hi)

\* the ETag S3 reports: the quoted MD5 of an object stored in one part, the
\* quoted digest of the part digests with a part count for a multipart one
Quoted(s) == L(<<"\"">>) \o s \o L(<<"\"">>)
SinglePart(data) == [ETag |-> Quoted(hexdigest(data))]
MultiPart == [ETag |-> Quoted(L(<<"1", "8", "7", "e", "f", "4", "4", "3", "6", "1", "2", "2", "d", "1", "c", "c", "2", "f", "4", "0", "d", "c", "2", "b", "9", "2", "f", "0", "e", "b", "a", "0", "-", "2">>))]
NoObject == [kind |-> "missing"]
Objects == {SinglePart(data) : data \in Contents} \cup {MultiPart}

\* a cache entry, and the mark of a key the dictionary does not hold
NoEntry == [absent |-> TRUE]
Entry(md5, mtime, size) == [md5 |-> md5, mtime |-> mtime, size |-> size]
EmptyDict == [k \in Keys |-> NoEntry]

\* the cache file's text stands for the value json.load makes of it
JsonFile(value) == [kind |-> "file", valid |-> TRUE, value |-> value]
CorruptFile == [kind |-> "file", valid |-> FALSE]

\* get_upload_cache(): the value of _upload_cache after the call
get_upload_cache(cache, files) ==
    IF cache.loaded THEN cache
    ELSE LET file == files[CACHE_FILE]
         IN  IF file.kind # "missing"
             THEN IF file.kind = "file" /\ file.valid
                  THEN [loaded |-> TRUE, dict |-> file.value]
                  ELSE [loaded |-> TRUE, dict |-> EmptyDict]
             ELSE [loaded |-> TRUE, dict |-> EmptyDict]

\* update_cache_entry(s3_key, local_path, md5): the dictionary after the call
update_cache_entry(s3_key, file, md5, dict) ==
    [dict EXCEPT ![s3_key] = Entry(md5, file.mtime, Len(file.data))]

\* check_local_cache(local_path, s3_key) on the loaded dictionary
check_local_cache(file, s3_key, dict) ==
    IF dict[s3_key] = NoEntry THEN <<TRUE, L(<<"c", "a", "c", "h", "e", "_", "m", "i", "s", "s">>)>>
    ELSE LET cached == dict[s3_key]
         IN  IF file.mtime # cached.mtime \/ Len(file.data) # cached.size
             THEN <<TRUE, L(<<"m", "o", "d", "i", "f", "i", "e", "d">>)>>
             ELSE <<FALSE, L(<<"c", "a", "c", "h", "e", "d">>)>>

\* what s3_client.head_object may do for a key: answer with the object's
\* metadata, raise ClientError 404 for a missing key, raise ClientError with
\* another code, or raise an exception that is no ClientError
HeadOutcomes(object) ==
    (IF object = NoObject THEN {"404"} ELSE {"ok"}) \cup {"403", "ConnectionError"}

\* s3_client.head_object(Bucket=bucket, Key=s3_key)
head_object(object, outcome) ==
    CASE outcome = "ok" -> object
      [] outcome = "404" -> [raise |-> "ClientError", code |-> L(<<"4", "0", "4">>)]
      [] outcome = "403" -> [raise |-> "ClientError", code |-> L(<<"4", "0", "3">>)]
      [] OTHER -> Raise(outcome)

\* a file_needs_upload that trusts any answer of head_object
file_needs_upload_head_only(file, object, head_outcome) ==
    IF head_outcome = "ok" THEN <<FALSE, L(<<"u", "n", "c", "h", "a", "n", "g", "e", "d">>)>>
    ELSE <<TRUE, L(<<"n", "e", "w">>)>>

\* file_needs_upload(local_path, s3_key, s3_client, bucket); the reason of
\* an exception that is no ClientError ends with the exception's text
file_needs_upload(file, object, head_outcome) ==
    LET response == head_object(object, head_outcome)
    IN  IF "raise" \in DOMAIN response
        THEN IF response.raise = "ClientError"
             THEN IF response.code = L(<<"4", "0", "4">>)
                  THEN <<TRUE, L(<<"n", "e", "w">>)>>
                  ELSE <<TRUE, L(<<"e", "r", "r", "o", "r", ":", " ">>) \o response.code>>
             ELSE <<TRUE, L(<<"e", "r", "r", "o", "r", ":", " ">>)>>
        ELSE LET s3_etag == strip_chars(response.ETag, QUOTES)
                 local_md5 == calculate_file_md5(file)
             IN  IF ~file.readable THEN <<TRUE, L(<<"e", "r", "r", "o", "r", ":", " ">>)>>
                 ELSE IF local_md5 = s3_etag
                      THEN <<FALSE, L(<<"u", "n", "c", "h", "a", "n", "g", "e", "d">>)>>
                      ELSE <<TRUE, L(<<"m", "o", "d", "i", "f", "i", "e", "d">>)>>

\* what s3_client.upload_file may do: store the object, or raise (it cannot
\* store a file it may not read)
PutOutcomes(file) == IF file.kind = "file" /\ file.readable THEN {"ok", "fail"} ELSE {"fail"}

\* one call the function made: its name, the key and whether it returned
Event(call, s3_key, ok) == [call |-> call, key |-> s3_key, ok |-> ok]

\* what a call of upload_file leaves: the returned pair, _upload_cache, the
\* bucket and the calls made on S3 and on the cache dictionary
Outcome(value, cache, bucket, events) ==
    [value |-> value, cache |-> cache, s3 |-> bucket, events |-> events]

\* upload_file from `if dry_run:` on: the upload and the cache entry after it
upload_tail(file, s3_key, dry_run, cache, events, put_outcome) ==
    IF dry_run THEN Outcome(<<TRUE, FALSE>>, cache, s3, events)
    ELSE IF put_outcome = "ok"
         THEN LET bucket == [s3 EXCEPT ![s3_key] = SinglePart(file.data)]
                  local_md5 == calculate_file_md5(file)
                  loaded == get_upload_cache(cache, fs)
              IN  Outcome(<<TRUE, FALSE>>,
                          [loaded EXCEPT !.dict = update_cache_entry(s3_key, file, local_md5, @)],
                          bucket,
                          events \o <<Event("upload_file", s3_key, TRUE),
                                      Event("update_cache_entry", s3_key, TRUE)>>)
         ELSE Outcome(<<FALSE, FALSE>>, cache, s3,
                      events \o <<Event("upload_file", s3_key, FALSE)>>)

\* upload_file(local_path, s3_key, config, s3_client, dry_run, verbose,
\* skip_unchanged), with what the two S3 calls do should it make them
upload_file(local_path, s3_key, dry_run, skip_unchanged, head_outcome, put_outcome) ==
    LET file == fs[local_path]
    IN  IF file.kind = "missing" THEN Outcome(<<FALSE, FALSE>>, upload_cache, s3, <<>>)
        ELSE IF skip_unchanged /\ ~dry_run
             THEN LET cache == get_upload_cache(upload_cache, fs)
                      local == check_local_cache(file, s3_key, cache.dict)
                      remote == file_needs_upload(file, s3[s3_key], head_outcome)
                      head == <<Event("head_object", s3_key, head_outcome = "ok")>>
                  IN  IF ~local[1] /\ local[2] = L(<<"c", "a", "c", "h", "e", "d">>)
                      THEN Outcome(<<TRUE, TRUE>>, cache, s3, <<>>)
                      ELSE IF ~remote[1]
                           THEN LET local_md5 == calculate_file_md5(file)
                                IN  Outcome(<<TRUE, TRUE>>,
                                            [cache EXCEPT !.dict = update_cache_entry(s3_key, file, local_md5, @)],
                                            s3,
                                            head \o <<Event("update_cache_entry", s3_key, TRUE)>>)
                           ELSE upload_tail(file, s3_key, dry_run, cache, head, put_outcome)
             ELSE upload_tail(file, s3_key, dry_run, upload_cache, <<>>, put_outcome)

\* the dictionary get_upload_cache() would hand out now
CacheView == get_upload_cache(upload_cache, fs).dict

\* the bound on the local file's modification time
MaxMtime == 2

\* the local files, buckets and cache files a run starts from
LocalFiles == {Missing} \cup {LocalFile(data, 1, readable) : data \in Contents, readable \in BOOLEAN}
CacheFiles ==
    {Missing, Denied, CorruptFile, JsonFile(EmptyDict),
     JsonFile([EmptyDict EXCEPT ![L(<<"a", "l", "b", "u", "m", "s", "/", "a", ".", "m", "p", "3">>)] = Entry(hexdigest(L(<<"a">>)), 1, 1)])}

InitUpload ==
    /\ \E local \in LocalFiles, json \in CacheFiles :
          fs = [p \in {LOCAL_PATH, CACHE_FILE} |-> IF p = CACHE_FILE THEN json ELSE local]
    /\ \E object \in Objects \cup {NoObject} :
          s3 = [k \in Keys |-> IF k = L(<<"a", "l", "b", "u", "m", "s", "/", "a", ".", "m", "p", "3">>) THEN object ELSE NoObject]
    /\ upload_cache = NotLoaded
    /\ first = [path |-> LOCAL_PATH, file |-> fs[LOCAL_PATH], calls |-> 0,
                between |-> FALSE, value |-> None]
    /\ pc = "idle"
    /\ tracker_path = <<>>
    /\ ext = <<>>
    /\ detected_format = PyNone
    /\ metadata = None
    /\ ret = NoReturn
    /\ environ = <<>>
    /\ handles = {}
    /\ frame = NoFrame

\* a call of upload_file, whole; what head_object and s3_client.upload_file
\* do is drawn only for the calls whose flags let them be reached
CallUploadFile ==
    /\ first.calls < MaxCalls
    /\ \E s3_key \in Keys, dry_run \in BOOLEAN, skip_unchanged \in BOOLEAN :
          \E head_outcome \in (IF skip_unchanged /\ ~dry_run THEN HeadOutcomes(s3[s3_key]) ELSE {"uncalled"}),
             put_outcome \in (IF dry_run THEN {"uncalled"} ELSE PutOutcomes(fs[LOCAL_PATH])) :
             LET out == upload_file(LOCAL_PATH, s3_key, dry_run, skip_unchanged, head_outcome, put_outcome)
             IN  /\ upload_cache' = out.cache
                 /\ s3' = out.s3
                 /\ ret' = [fn |-> "upload_file", path |-> LOCAL_PATH, key |-> s3_key,
                            dry_run |-> dry_run, skip_unchanged |-> skip_unchanged,
                            value |-> out.value, events |-> out.events]
    /\ first' = [first EXCEPT !.calls = @ + 1]
    /\ UNCHANGED <<fs, pc, tracker_path, ext, detected_format, metadata, environ, handles, frame>>

\* another program rewrites the local file: new bytes, a later st_mtime
WriteLocal ==
    /\ fs[LOCAL_PATH].kind = "file"
    /\ fs[LOCAL_PATH].mtime < MaxMtime
    /\ \E data \in Contents :
          fs' = [fs EXCEPT ![LOCAL_PATH] = LocalFile(data, @.mtime + 1, @.readable)]
    /\ UNCHANGED <<pc, tracker_path, ext, detected_format, metadata, ret, first, environ, handles, frame, s3, upload_cache>>

\* save_upload_cache(): a loaded dictionary is written to the cache file
\* (_cache_file is set whenever _upload_cache is); an OSError is swallowed
SaveUploadCache ==
    /\ upload_cache.loaded
    /\ fs[CACHE_FILE].kind # "denied"
    /\ fs' = [fs EXCEPT ![CACHE_FILE] = JsonFile(upload_cache.dict)]
    /\ UNCHANGED <<pc, tracker_path, ext, detected_format, metadata, ret, first, environ, handles, frame, s3, upload_cache>>

\* the process ends and a new one starts: the module global is None again
Restart ==
    /\ upload_cache.loaded
    /\ upload_cache' = NotLoaded
    /\ UNCHANGED <<fs, pc, tracker_path, ext, detected_format, metadata, ret, first, environ, handles, frame, s3>>

NextUpload == CallUploadFile \/ WriteLocal \/ SaveUploadCache \/ Restart

SpecUpload == InitUpload /\ [][NextUpload]_vars

\* a step that is one call of upload_file
UploadStep == ret'.fn = "upload_file" /\ first'.calls = first.calls + 1

\* the calls the last upload_file made, by name
CallsOf(events, call) == {i \in 1..Len(events) : events[i].call = call}

\* S3 holds the key and its ETag, unquoted, is the local file's MD5
ETagEqual(s3_key) ==
    /\ s3[s3_key] # NoObject
    /\ fs[LOCAL_PATH].kind = "file" /\ fs[LOCAL_PATH].readable
    /\ strip_chars(s3[s3_key].ETag, QUOTES) = hexdigest(fs[LOCAL_PATH].data)

\* C30: a call of upload_file changes no cache entry but the one of its own
\* key, and that one only by a write that directly follows either a
\* successful S3 upload of the key or a successful head_object whose ETag
\* equals the local MD5; a dry run, a missing local file or a failed upload
\* writes nothing and leaves the cache dictionary as it was, and a dry run
\* makes no S3 upload call and leaves the bucket as it was.
C30_CacheWrittenAfterSuccess ==
    [][UploadStep =>
        LET s3_key == ret'.key
            events == ret'.events
            writes == CallsOf(events, "update_cache_entry")
        IN  /\ \A k \in Keys : CacheView'[k] # CacheView[k] => k = s3_key /\ writes # {}
            /\ \A i \in writes :
                  /\ events[i].key = s3_key
                  /\ i > 1
                  /\ \/ events[i - 1] = Event("upload_file", s3_key, TRUE)
                     \/ events[i - 1] = Event("head_object", s3_key, TRUE) /\ ETagEqual(s3_key)
            /\ (\/ ret'.dry_run
                \/ fs[LOCAL_PATH].kind = "missing"
                \/ \E i \in CallsOf(events, "upload_file") : ~events[i].ok)
               => writes = {} /\ CacheView' = CacheView
            /\ ret'.dry_run => CallsOf(events, "upload_file") = {} /\ s3' = s3]_vars

\* a call found the key's ETag equal to the MD5 of the local file, made no
\* upload and wrote the entry
C30_Witness ==
    /\ ret.fn = "upload_file"
    /\ ret.value = <<TRUE, TRUE>>
    /\ ret.events = <<Event("head_object", ret.key, TRUE), Event("update_cache_entry", ret.key, TRUE)>>
    /\ upload_cache.loaded
    /\ upload_cache.dict[ret.key] = Entry(hexdigest(fs[LOCAL_PATH].data), fs[LOCAL_PATH].mtime, Len(fs[LOCAL_PATH].data))

====
